---- MODULE Spec2Model ----
(***************************************************************************)
(* Step chart generation engine of stepageddon                             *)
(* (backend/modules/step_generator): StepGenerator.generate_chart with its *)
(* two generation paths, structural shaping and validation, the Step       *)
(* constructors, the difficulty lookup and ChartExporter.to_json.          *)
(*                                                                         *)
(* Times and durations are exact integers counted in ticks of 0.1 ms       *)
(* (the resolution quantize_to_grid rounds to).  Binary floating point     *)
(* representation error is not modelled.  Energy levels and hold           *)
(* percentages are integers in hundredths, energy scale factors in tenths. *)
(* Python's None for an Optional value is the empty sequence and a present *)
(* value v is <<v>>.  Sequences are 1-based: Python index i is i + 1 here. *)
(***************************************************************************)
EXTENDS Integers, Sequences, FiniteSets, TLC

TicksPerSecond == 10000

Ms(n) == n * 10

\* ------------------------------------------------------------------------
\* generic helpers (Python list semantics)
\* ------------------------------------------------------------------------
Abs(x) == IF x < 0 THEN 0 - x ELSE x

Min2(a, b) == IF a <= b THEN a ELSE b

Max2(a, b) == IF a >= b THEN a ELSE b

Range(s) == {s[i] : i \in 1..Len(s)}

\* s[:n]
Take(s, n) == SubSeq(s, 1, Min2(Max2(n, 0), Len(s)))

\* s[:-1]
Front(s) == SubSeq(s, 1, Len(s) - 1)

\* [f(x) for x in s] for a function f
MapSeq(s, f) == [i \in 1..Len(s) |-> f[s[i]]]

\* insertion of the pair p = <<key, item>> behind every pair with key <= p[1]
RECURSIVE InsertStable(_, _)
InsertStable(s, p) ==
    IF s = <<>> THEN <<p>>
    ELSE IF s[Len(s)][1] <= p[1] THEN Append(s, p)
    ELSE Append(InsertStable(Front(s), p), s[Len(s)])

\* sorted(ps, key=first component): ascending and stable, as Python's sort
RECURSIVE SortPairs(_)
SortPairs(ps) ==
    IF ps = <<>> THEN <<>>
    ELSE InsertStable(SortPairs(Front(ps)), ps[Len(ps)])

\* sorted(list of steps or candidates, key=lambda x: x.time)
SortByTime(s) ==
    LET sorted == SortPairs([i \in 1..Len(s) |-> <<s[i].time, s[i]>>])
    IN [i \in 1..Len(s) |-> sorted[i][2]]

\* sorted(list of numbers)
SortNums(s) ==
    LET sorted == SortPairs([i \in 1..Len(s) |-> <<s[i], s[i]>>])
    IN [i \in 1..Len(s) |-> sorted[i][2]]

\* sorted(set(list of numbers))
RECURSIVE SortedSet(_)
SortedSet(S) ==
    IF S = {} THEN <<>>
    ELSE LET m == CHOOSE x \in S : \A y \in S : x <= y
         IN <<m>> \o SortedSet(S \ {m})

\* min(s, key=..., default=t): the target itself when s is empty
NearestToOrTarget(s, t) ==
    IF s = <<>> THEN <<t>>
    ELSE LET best == CHOOSE i \in 1..Len(s) :
                        /\ \A j \in 1..Len(s) : Abs(s[i] - t) <= Abs(s[j] - t)
                        /\ \A j \in 1..(i - 1) : Abs(s[j] - t) > Abs(s[i] - t)
         IN <<s[best]>>

\* min(s, key=lambda b: abs(b - t), default=None): the first minimal element
NearestTo(s, t) ==
    IF s = <<>> THEN <<>>
    ELSE LET best == CHOOSE i \in 1..Len(s) :
                        /\ \A j \in 1..Len(s) : Abs(s[i] - t) <= Abs(s[j] - t)
                        /\ \A j \in 1..(i - 1) : Abs(s[j] - t) > Abs(s[i] - t)
         IN <<s[best]>>

\* list.remove(x): drops the first occurrence
RemoveFirst(s, x) ==
    LET first == CHOOSE i \in 1..Len(s) : s[i] = x /\ \A j \in 1..(i - 1) : s[j] # x
    IN SubSeq(s, 1, first - 1) \o SubSeq(s, first + 1, Len(s))

\* round(t, 3) for a time in ticks (input times never lie on a tie)
Round3(t) == ((t + 5) \div 10) * 10

\* int(time * 100)
Hundredths(t) == t \div 100

\* ------------------------------------------------------------------------
\* schemas.py: enums and Step
\* ------------------------------------------------------------------------
TAP == "tap"

HOLD == "hold"

LEFT == "left"

DOWN == "down"

UP == "up"

RIGHT == "right"

Direction == {LEFT, DOWN, UP, RIGHT}

None == <<>>

\* a Step object as the generator builds it (Step(time=, arrows=, step_type=, hold_duration=))
MkStep(time, arrows, step_type, hold_duration) ==
    [time |-> time, arrows |-> arrows, step_type |-> step_type,
     hold_duration |-> hold_duration]

\* ------------------------------------------------------------------------
\* difficulty.py
\* ------------------------------------------------------------------------
PresetNames == {"beginner", "intermediate", "expert"}

DIFFICULTY_PRESETS ==
    [n \in PresetNames |->
        CASE n = "beginner" ->
               [name |-> "beginner", allow_doubles |-> FALSE, allow_holds |-> TRUE,
                hold_percentage |-> 15, min_hold_duration |-> Ms(800),
                max_hold_duration |-> Ms(2000), use_downbeats |-> TRUE,
                use_upbeats |-> FALSE, use_offbeats |-> FALSE,
                use_8th_notes |-> FALSE, use_16th_notes |-> FALSE,
                use_onsets |-> FALSE, max_stream_length |-> 0,
                allow_crossovers |-> FALSE, energy_scale_factor |-> 3]
          [] n = "intermediate" ->
               [name |-> "intermediate", allow_doubles |-> TRUE, allow_holds |-> TRUE,
                hold_percentage |-> 20, min_hold_duration |-> Ms(600),
                max_hold_duration |-> Ms(3000), use_downbeats |-> TRUE,
                use_upbeats |-> TRUE, use_offbeats |-> TRUE,
                use_8th_notes |-> TRUE, use_16th_notes |-> FALSE,
                use_onsets |-> FALSE, max_stream_length |-> 6,
                allow_crossovers |-> TRUE, energy_scale_factor |-> 6]
          [] OTHER ->
               [name |-> "expert", allow_doubles |-> TRUE, allow_holds |-> TRUE,
                hold_percentage |-> 25, min_hold_duration |-> Ms(500),
                max_hold_duration |-> Ms(4000), use_downbeats |-> TRUE,
                use_upbeats |-> TRUE, use_offbeats |-> TRUE,
                use_8th_notes |-> TRUE, use_16th_notes |-> TRUE,
                use_onsets |-> FALSE, max_stream_length |-> 16,
                allow_crossovers |-> TRUE, energy_scale_factor |-> 10]]

\* get_difficulty_config: <<"ok", config>> or <<"ValueError">>
get_difficulty_config(difficulty) ==
    IF difficulty \notin DOMAIN DIFFICULTY_PRESETS
    THEN <<"ValueError">>
    ELSE <<"ok", DIFFICULTY_PRESETS[difficulty]>>

\* ------------------------------------------------------------------------
\* generator.py: arrow and pattern choice
\* ------------------------------------------------------------------------
left_foot == <<LEFT, DOWN>>

right_foot == <<UP, RIGHT>>

all_arrows == <<LEFT, DOWN, UP, RIGHT>>

pitch_to_arrow(pitch) ==
    IF pitch < 60
    THEN (IF pitch < 55 THEN LEFT ELSE DOWN)
    ELSE (IF pitch < 70 THEN UP ELSE RIGHT)

\* _get_jump_partner with LEFT paired with itself
get_jump_partner_same(arrow) ==
    CASE arrow = LEFT -> LEFT
      [] arrow = RIGHT -> LEFT
      [] arrow = DOWN -> UP
      [] arrow = UP -> DOWN
      [] OTHER -> DOWN

get_jump_partner(arrow) ==
    CASE arrow = LEFT -> RIGHT
      [] arrow = RIGHT -> LEFT
      [] arrow = DOWN -> UP
      [] arrow = UP -> DOWN
      [] OTHER -> DOWN

\* _choose_pattern with the stream threshold of 'high' used for 'climax' too
choose_pattern_one_stream_threshold(time, intensity, cfg) ==
    LET seed == Hundredths(time) % 100
    IN CASE intensity \in {"climax", "high"} ->
              (IF seed < 25 /\ cfg.max_stream_length > 0 THEN "stream"
               ELSE IF seed < (IF intensity = "climax" THEN 90 ELSE 60) /\ cfg.allow_doubles
               THEN "jump"
               ELSE IF intensity = "high" /\ seed < 80 /\ cfg.allow_crossovers
               THEN "crossover"
               ELSE "single")
         [] intensity = "medium" ->
              (IF seed < 30 /\ cfg.allow_doubles THEN "jump"
               ELSE IF seed < 50 /\ cfg.allow_crossovers THEN "crossover"
               ELSE "single")
         [] OTHER -> "single"

\* _choose_pattern that chooses 'stream' whatever the stream length cap
choose_pattern_without_cap_test(time, intensity, cfg) ==
    LET seed == Hundredths(time) % 100
    IN CASE intensity = "climax" ->
              (IF seed < 40 THEN "stream"
               ELSE IF seed < 90 /\ cfg.allow_doubles THEN "jump"
               ELSE "single")
         [] intensity = "high" ->
              (IF seed < 25 THEN "stream"
               ELSE IF seed < 60 /\ cfg.allow_doubles THEN "jump"
               ELSE IF seed < 80 /\ cfg.allow_crossovers THEN "crossover"
               ELSE "single")
         [] intensity = "medium" ->
              (IF seed < 30 /\ cfg.allow_doubles THEN "jump"
               ELSE IF seed < 50 /\ cfg.allow_crossovers THEN "crossover"
               ELSE "single")
         [] OTHER -> "single"

choose_pattern(time, intensity, cfg) ==
    LET seed == Hundredths(time) % 100
    IN CASE intensity = "climax" ->
              (IF seed < 40 /\ cfg.max_stream_length > 0 THEN "stream"
               ELSE IF seed < 90 /\ cfg.allow_doubles THEN "jump"
               ELSE "single")
         [] intensity = "high" ->
              (IF seed < 25 /\ cfg.max_stream_length > 0 THEN "stream"
               ELSE IF seed < 60 /\ cfg.allow_doubles THEN "jump"
               ELSE IF seed < 80 /\ cfg.allow_crossovers THEN "crossover"
               ELSE "single")
         [] intensity = "medium" ->
              (IF seed < 30 /\ cfg.allow_doubles THEN "jump"
               ELSE IF seed < 50 /\ cfg.allow_crossovers THEN "crossover"
               ELSE "single")
         [] OTHER -> "single"

\* _choose_single_arrow that starts on the right foot
choose_single_arrow_from_right(existing_steps, current_time) ==
    IF existing_steps = <<>> THEN UP
    ELSE LET last_step == existing_steps[Len(existing_steps)]
             last_arrow == IF last_step.arrows # <<>>
                           THEN last_step.arrows[Len(last_step.arrows)]
                           ELSE LEFT
             last_was_left == last_arrow \in Range(left_foot)
             time_seed == Hundredths(current_time) % 100
         IN IF last_was_left
            THEN (IF time_seed < 60 THEN right_foot[1] ELSE right_foot[2])
            ELSE (IF time_seed < 60 THEN left_foot[1] ELSE left_foot[2])

choose_single_arrow(existing_steps, current_time) ==
    IF existing_steps = <<>> THEN LEFT
    ELSE LET last_step == existing_steps[Len(existing_steps)]
             last_arrow == IF last_step.arrows # <<>>
                           THEN last_step.arrows[Len(last_step.arrows)]
                           ELSE LEFT
             last_was_left == last_arrow \in Range(left_foot)
             time_seed == Hundredths(current_time) % 100
         IN IF last_was_left
            THEN (IF time_seed < 60 THEN right_foot[1] ELSE right_foot[2])
            ELSE (IF time_seed < 60 THEN left_foot[1] ELSE left_foot[2])

\* the arrows of a 'jump' pattern (generate_patterns, seed = int(time*100) % 3)
jump_arrows(time) ==
    LET seed == Hundredths(time) % 3
    IN IF seed = 0 THEN <<LEFT, RIGHT>>
       ELSE IF seed = 1 THEN <<DOWN, UP>>
       ELSE <<LEFT, UP>>

\* the for-loop of a stream that leaves out the last member
RECURSIVE stream_steps_but_last(_, _, _, _, _, _, _)
stream_steps_but_last(steps, beat_times, i, j, stream_length, time, interval) ==
    IF j >= stream_length - 1 THEN steps
    ELSE LET arrow == choose_single_arrow(steps, time + j * interval)
         IN stream_steps_but_last(Append(steps, MkStep(beat_times[i + j], <<arrow>>, TAP, None)),
                                  beat_times, i, j + 1, stream_length, time, interval)

\* the for-loop that appends the members of a stream
RECURSIVE stream_steps(_, _, _, _, _, _, _)
stream_steps(steps, beat_times, i, j, stream_length, time, interval) ==
    IF j >= stream_length THEN steps
    ELSE LET arrow == choose_single_arrow(steps, time + j * interval)
         IN stream_steps(Append(steps, MkStep(beat_times[i + j], <<arrow>>, TAP, None)),
                         beat_times, i, j + 1, stream_length, time, interval)

\* the while-loop of _generate_patterns from (1-based) position i on
RECURSIVE pattern_walk(_, _, _, _, _)
pattern_walk(beat_times, i, steps, intensity, cfg) ==
    IF i > Len(beat_times) THEN steps
    ELSE
      LET time == beat_times[i]
          n == Len(beat_times)
          pattern_choice == choose_pattern(time, intensity, cfg)
          single == Append(steps, MkStep(time, <<choose_single_arrow(steps, time)>>, TAP, None))
      IN
      IF pattern_choice = "stream" /\ (i - 1) + 4 < n THEN
          LET cnt == Min2(4, n - (i - 1) - 1)
              intervals == [j \in 1..cnt |-> beat_times[i + j] - beat_times[i + j - 1]]
              hi == CHOOSE x \in Range(intervals) : \A y \in Range(intervals) : y <= x
              lo == CHOOSE x \in Range(intervals) : \A y \in Range(intervals) : x <= y
          IN IF cnt > 0 /\ hi - lo < Ms(50)
             THEN LET stream_length == Min2(cfg.max_stream_length, n - (i - 1))
                  IN pattern_walk(beat_times, i + stream_length,
                                  stream_steps(steps, beat_times, i, 0, stream_length,
                                               time, intervals[1]),
                                  intensity, cfg)
             ELSE pattern_walk(beat_times, i + 1, single, intensity, cfg)
      ELSE IF pattern_choice = "jump" /\ cfg.allow_doubles THEN
          pattern_walk(beat_times, i + 1,
                       Append(steps, MkStep(time, jump_arrows(time), TAP, None)),
                       intensity, cfg)
      ELSE IF pattern_choice = "crossover" /\ cfg.allow_crossovers THEN
          IF (i - 1) + 3 < n
          THEN pattern_walk(beat_times, i + 4,
                            steps \o [j \in 1..4 |->
                                        MkStep(beat_times[i + j - 1],
                                               <<(<<LEFT, RIGHT, LEFT, RIGHT>>)[j]>>,
                                               TAP, None)],
                            intensity, cfg)
          ELSE pattern_walk(beat_times, i + 1, single, intensity, cfg)
      ELSE pattern_walk(beat_times, i + 1, single, intensity, cfg)

generate_patterns(beat_times, intensity, cfg) ==
    pattern_walk(SortNums(beat_times), 1, <<>>, intensity, cfg)

\* ------------------------------------------------------------------------
\* generator.py: structural shaping and validation
\* ------------------------------------------------------------------------
keep_intro_step(step) == Hundredths(step.time) % 10 < 3

\* _keep_outro_step with the threshold of _keep_intro_step
keep_outro_step_by_intro_rule(step) == Hundredths(step.time) % 10 < 3

keep_outro_step(step) == Hundredths(step.time) % 10 < 4

\* structure is [intro |-> <<start, end>>, outro |-> <<start, end>>, total_duration |-> d]
adjust_for_structure(steps, structure) ==
    LET InIntro(s) == structure.intro[1] <= s.time /\ s.time <= structure.intro[2]
        InOutro(s) == structure.outro[1] <= s.time /\ s.time <= structure.outro[2]
        KeepIntro(s) == ~InIntro(s) \/ keep_intro_step(s)
        KeepOutro(s) == ~InOutro(s) \/ keep_outro_step(s)
    IN SelectSeq(SelectSeq(steps, KeepIntro), KeepOutro)

\* _get_min_gap whose lookup never finds the name and returns the default
get_min_gap_missed_key(cfg) ==
    Ms(150)

get_min_gap(cfg) ==
    CASE cfg.name = "beginner" -> Ms(350)
      [] cfg.name = "intermediate" -> Ms(150)
      [] cfg.name = "expert" -> Ms(80)
      [] OTHER -> Ms(150)

\* the repair of a hold step that turns a short hold into a tap and leaves
\* its duration in place
validate_hold_keeping_duration(step, cfg) ==
    IF step.step_type = HOLD
    THEN IF step.hold_duration[1] < cfg.min_hold_duration
         THEN [step EXCEPT !.step_type = TAP]
         ELSE IF step.hold_duration[1] > cfg.max_hold_duration
         THEN [step EXCEPT !.hold_duration = <<cfg.max_hold_duration>>]
         ELSE step
    ELSE step

\* lines 620-625: the repair of one hold step
validate_hold(step, cfg) ==
    IF step.step_type = HOLD
    THEN IF step.hold_duration[1] < cfg.min_hold_duration
         THEN [step EXCEPT !.step_type = TAP, !.hold_duration = None]
         ELSE IF step.hold_duration[1] > cfg.max_hold_duration
         THEN [step EXCEPT !.hold_duration = <<cfg.max_hold_duration>>]
         ELSE step
    ELSE step

\* the arrow caps that take the last arrow off a step that has too many
cap_arrows_dropping_last(step, cfg) ==
    LET four == IF Len(step.arrows) > 4 THEN Front(step.arrows) ELSE step.arrows
    IN [step EXCEPT !.arrows = IF cfg.name = "beginner" /\ Len(four) > 1
                              THEN Front(four) ELSE four]

\* lines 608-612: the arrow caps
cap_arrows(step, cfg) ==
    LET four == IF Len(step.arrows) > 4 THEN Take(step.arrows, 4) ELSE step.arrows
    IN [step EXCEPT !.arrows = IF cfg.name = "beginner" /\ Len(four) > 1
                              THEN <<four[1]>> ELSE four]

\* the for-loop of _validate_chart from (1-based) position i on
RECURSIVE validate_walk(_, _, _, _)
validate_walk(steps, i, validated, cfg) ==
    IF i > Len(steps) THEN validated
    ELSE
      LET step == steps[i]
          last == validated[Len(validated)]
      IN IF i > 1 /\ Abs(step.time - last.time) < Ms(10)
         THEN validate_walk(steps, i + 1, validated, cfg)
         ELSE IF i > 1 /\ step.time - last.time < get_min_gap(cfg)
         THEN validate_walk(steps, i + 1, validated, cfg)
         ELSE validate_walk(steps, i + 1,
                            Append(validated, validate_hold(cap_arrows(step, cfg), cfg)),
                            cfg)

\* _validate_chart that measures the gap from the step before in the list,
\* kept or not
RECURSIVE validate_walk_from_last_seen(_, _, _, _)
validate_walk_from_last_seen(steps, i, validated, cfg) ==
    IF i > Len(steps) THEN validated
    ELSE IF i > 1 /\ steps[i].time - steps[i - 1].time < get_min_gap(cfg)
    THEN validate_walk_from_last_seen(steps, i + 1, validated, cfg)
    ELSE validate_walk_from_last_seen(steps, i + 1,
             Append(validated, validate_hold(cap_arrows(steps[i], cfg), cfg)), cfg)

validate_chart_from_last_seen(steps, cfg) == validate_walk_from_last_seen(steps, 1, <<>>, cfg)

validate_chart(steps, cfg) == validate_walk(steps, 1, <<>>, cfg)

\* ------------------------------------------------------------------------
\* audio_analysis.py: detect_energy_peaks (scipy.signal.find_peaks with
\* height=0.7, distance=4 over the sections' energy levels)
\* ------------------------------------------------------------------------
PeakHeight == 70

PeakDistance == 4

\* midpoints of the strict local maxima (plateaus included, ends excluded)
LocalMaxima(x) ==
    {m \in 1..Len(x) :
        \E l \in 2..(Len(x) - 1) : \E r \in l..(Len(x) - 1) :
            /\ \A k \in l..r : x[k] = x[l]
            /\ x[l - 1] < x[l]
            /\ x[r + 1] < x[r]
            /\ m = (l + r) \div 2}

\* peaks closer than PeakDistance to a higher peak are dropped, highest first
\* (among equals the later index first)
RECURSIVE SelectByDistance(_, _, _)
SelectByDistance(x, todo, kept) ==
    IF todo = {} THEN kept
    ELSE LET b == CHOOSE p \in todo :
                     \A q \in todo : x[q] < x[p] \/ (x[q] = x[p] /\ q <= p)
             near == {q \in kept : q # b /\ Abs(q - b) < PeakDistance}
         IN SelectByDistance(x, (todo \ {b}) \ near, kept \ near)

find_peaks(x) ==
    LET high == {p \in LocalMaxima(x) : x[p] >= PeakHeight}
    IN SelectByDistance(x, high, high)

\* section is [start_time, end_time, energy_level, intensity]
detect_energy_peaks(sections) ==
    LET energies == [i \in 1..Len(sections) |-> sections[i].energy_level]
        peaks == SortedSet(find_peaks(energies))
    IN [i \in 1..Len(peaks) |-> sections[peaks[i]].start_time]

\* ------------------------------------------------------------------------
\* generator.py: holds
\* ------------------------------------------------------------------------
get_held_arrows_at_time(hold_steps, time) ==
    UNION {Range(hold_steps[i].arrows) : i \in
             {k \in 1..Len(hold_steps) :
                 /\ hold_steps[k].step_type = HOLD
                 /\ hold_steps[k].hold_duration # None
                 /\ hold_steps[k].hold_duration[1] # 0
                 /\ hold_steps[k].time <= time
                 /\ time <= hold_steps[k].time + hold_steps[k].hold_duration[1] + Ms(50)}}

\* the cap rounded up instead of down
max_holds_rounded_up(count, cfg) == (count * cfg.hold_percentage + 99) \div 100

\* int(count * hold_percentage)
max_holds(count, cfg) == (count * cfg.hold_percentage) \div 100

\* note is [start_time, end_time, pitch]
hold_in_bounds(note, cfg) ==
    LET duration == note.end_time - note.start_time
    IN cfg.min_hold_duration <= duration /\ duration <= cfg.max_hold_duration

\* _place_holds: the for-loop from note i on
RECURSIVE place_holds_walk(_, _, _, _, _)
place_holds_walk(sustained_notes, i, available_beats, holds, cfg) ==
    IF i > Len(sustained_notes) THEN holds
    ELSE
      LET note == sustained_notes[i]
          duration == note.end_time - note.start_time
          nearest_beat == NearestTo(available_beats, note.start_time)
      IN IF ~hold_in_bounds(note, cfg)
         THEN place_holds_walk(sustained_notes, i + 1, available_beats, holds, cfg)
         ELSE IF /\ nearest_beat # None
                 /\ nearest_beat[1] # 0
                 /\ Abs(nearest_beat[1] - note.start_time) < Ms(200)
         THEN place_holds_walk(sustained_notes, i + 1, available_beats,
                               Append(holds,
                                      MkStep(nearest_beat[1], <<pitch_to_arrow(note.pitch)>>,
                                             HOLD, <<Min2(duration, cfg.max_hold_duration)>>)),
                               cfg)
         ELSE place_holds_walk(sustained_notes, i + 1, available_beats, holds, cfg)

place_holds(sustained_notes, available_beats, cfg) ==
    Take(place_holds_walk(sustained_notes, 1, available_beats, <<>>, cfg),
         max_holds(Len(available_beats), cfg))

\* ------------------------------------------------------------------------
\* generator.py: beat-based path
\* ------------------------------------------------------------------------
\* beat is [time, strength, beat_type]
filter_beats(beats, cfg) ==
    LET Used(b) == \/ b.beat_type = "downbeat" /\ cfg.use_downbeats
                   \/ b.beat_type = "upbeat" /\ cfg.use_upbeats
                   \/ b.beat_type = "offbeat" /\ cfg.use_offbeats
        kept == SelectSeq(beats, Used)
    IN [i \in 1..Len(kept) |-> kept[i].time]

\* beat_strengths.get(t, 0): the last beat at time t decides
beat_strength(all_beats, t) ==
    LET at == {i \in 1..Len(all_beats) : all_beats[i].time = t}
    IN IF at = {} THEN 0
       ELSE all_beats[CHOOSE i \in at : \A j \in at : j <= i].strength

select_beats_by_energy(section_beats, all_beats, target_count, cfg) ==
    IF cfg.use_onsets THEN Take(SortNums(section_beats), target_count)
    ELSE LET sorted == SortPairs([i \in 1..Len(section_beats) |->
                            <<0 - beat_strength(all_beats, section_beats[i]),
                              section_beats[i]>>])
         IN Take([i \in 1..Len(sorted) |-> sorted[i][2]], target_count)

\* lines 361-368: the number of beats a section may use
section_target(count, section, cfg) ==
    IF cfg.use_onsets
    THEN (count * (8000 + 20 * section.energy_level)) \div 10000
    ELSE Min2((count * (1000 + (section.energy_level - 50) * cfg.energy_scale_factor))
                 \div 1000,
              count)

\* Phase 2: accents on energy peaks; the state is <<steps, available_beats>>
RECURSIVE peak_accents(_, _, _, _, _)
peak_accents(energy_peaks, i, steps, available_beats, cfg) ==
    IF i > Len(energy_peaks)
    THEN [steps |-> steps, available_beats |-> available_beats, raised |-> FALSE]
    ELSE
      LET peak_time == energy_peaks[i]
          nearest == NearestTo(available_beats, peak_time)
      IN IF /\ nearest # None
            /\ nearest[1] # 0
            /\ Abs(nearest[1] - peak_time) < Ms(100)
            /\ cfg.allow_doubles
         THEN IF nearest[1] \notin Range(available_beats)
              \* list.remove(x) raises ValueError when x is not in the list
              THEN [steps |-> steps, available_beats |-> available_beats, raised |-> TRUE]
              ELSE peak_accents(energy_peaks, i + 1,
                                Append(steps, MkStep(nearest[1], <<LEFT, DOWN>>, TAP, None)),
                                RemoveFirst(available_beats, nearest[1]), cfg)
         ELSE peak_accents(energy_peaks, i + 1, steps, available_beats, cfg)

\* Phase 3: fill every energy section with patterns
RECURSIVE fill_sections(_, _, _, _, _, _)
fill_sections(energy_sections, i, steps, available_beats, beats, cfg) ==
    IF i > Len(energy_sections) THEN steps
    ELSE
      LET section == energy_sections[i]
          InSection(b) == section.start_time <= b /\ b <= section.end_time
          section_beats == SelectSeq(available_beats, InSection)
          target == section_target(Len(section_beats), section, cfg)
          beats_to_use == select_beats_by_energy(section_beats, beats, target, cfg)
      IN fill_sections(energy_sections, i + 1,
                       steps \o generate_patterns(beats_to_use, section.intensity, cfg),
                       available_beats, beats, cfg)

generate_from_beats(beats, subdivisions, energy_sections, sustained_notes, onset_times, cfg) ==
    LET base == IF cfg.use_onsets /\ onset_times # <<>>
                THEN onset_times
                ELSE filter_beats(beats, cfg)
        available_beats == IF cfg.use_8th_notes \/ cfg.use_16th_notes
                           THEN SortedSet(Range(base \o subdivisions))
                           ELSE base
        with_holds == cfg.allow_holds /\ sustained_notes # <<>>
        hold_steps == IF with_holds
                      THEN place_holds(sustained_notes, available_beats, cfg)
                      ELSE <<>>
        hold_times == {hold_steps[i].time : i \in 1..Len(hold_steps)}
        NotHeld(b) == b \notin hold_times
        after_holds == IF with_holds THEN SelectSeq(available_beats, NotHeld)
                       ELSE available_beats
        accents == peak_accents(detect_energy_peaks(energy_sections), 1,
                                hold_steps, after_holds, cfg)
    IN IF accents.raised THEN [raised |-> TRUE, steps |-> <<>>]
       ELSE [raised |-> FALSE,
             steps |-> fill_sections(energy_sections, 1, accents.steps,
                                     accents.available_beats, beats, cfg)]

\* ------------------------------------------------------------------------
\* generator.py: source-aware candidate path
\* candidate is [time, priority, suggested_arrows]
\* ------------------------------------------------------------------------
FirstMin(options, counts) ==
    options[CHOOSE i \in 1..Len(options) :
               /\ \A j \in 1..Len(options) : counts[options[i]] <= counts[options[j]]
               /\ \A j \in 1..(i - 1) : counts[options[j]] > counts[options[i]]]

\* _choose_spread_arrow that does not filter out the held arrows
choose_spread_arrow_over_holds(prev, counts, current_time, held_arrows) ==
    LET Free(d) == d \in Direction
        free == SelectSeq(all_arrows, Free)
        available == IF free = <<>> THEN all_arrows ELSE free
    IN IF prev = None THEN FirstMin(available, counts)
       ELSE
         LET last_was_left == prev[1] \in Range(left_foot)
             preferred == SelectSeq(IF last_was_left THEN right_foot ELSE left_foot, Free)
             other == SelectSeq(IF last_was_left THEN left_foot ELSE right_foot, Free)
             foot_options == IF preferred # <<>> THEN preferred
                             ELSE IF other # <<>> THEN other
                             ELSE available
             time_seed == Hundredths(current_time) % 100
         IN IF Len(foot_options) = 1 THEN foot_options[1]
            ELSE IF counts[foot_options[1]] < counts[foot_options[2]]
            THEN (IF time_seed < 70 THEN foot_options[1] ELSE foot_options[2])
            ELSE IF counts[foot_options[2]] < counts[foot_options[1]]
            THEN (IF time_seed < 70 THEN foot_options[2] ELSE foot_options[1])
            ELSE (IF time_seed < 50 THEN foot_options[1] ELSE foot_options[2])

\* prev is None or <<arrow>>
choose_spread_arrow(prev, counts, current_time, held_arrows) ==
    LET Free(d) == d \notin held_arrows
        free == SelectSeq(all_arrows, Free)
        available == IF free = <<>> THEN all_arrows ELSE free
    IN IF prev = None THEN FirstMin(available, counts)
       ELSE
         LET last_was_left == prev[1] \in Range(left_foot)
             preferred == SelectSeq(IF last_was_left THEN right_foot ELSE left_foot, Free)
             other == SelectSeq(IF last_was_left THEN left_foot ELSE right_foot, Free)
             foot_options == IF preferred # <<>> THEN preferred
                             ELSE IF other # <<>> THEN other
                             ELSE available
             time_seed == Hundredths(current_time) % 100
         IN IF Len(foot_options) = 1 THEN foot_options[1]
            ELSE IF counts[foot_options[1]] < counts[foot_options[2]]
            THEN (IF time_seed < 70 THEN foot_options[1] ELSE foot_options[2])
            ELSE IF counts[foot_options[2]] < counts[foot_options[1]]
            THEN (IF time_seed < 70 THEN foot_options[2] ELSE foot_options[1])
            ELSE (IF time_seed < 50 THEN foot_options[1] ELSE foot_options[2])

\* _candidates_to_steps: the for-loop over the time-sorted candidates
RECURSIVE candidates_walk(_, _, _, _, _, _)
candidates_walk(sorted, i, steps, prev_arrow, arrow_counts, hold_steps) ==
    IF i > Len(sorted) THEN steps
    ELSE
      LET candidate == sorted[i]
          held_arrows == get_held_arrows_at_time(hold_steps, candidate.time)
          arrow == choose_spread_arrow(prev_arrow, arrow_counts, candidate.time, held_arrows)
      IN candidates_walk(sorted, i + 1,
                         Append(steps, MkStep(candidate.time, <<arrow>>, TAP, None)),
                         <<arrow>>,
                         [arrow_counts EXCEPT ![arrow] = @ + 1],
                         hold_steps)

candidates_to_steps(candidates, intensity, hold_steps) ==
    candidates_walk(SortByTime(candidates), 1, <<>>, None,
                    [d \in Direction |-> 0], hold_steps)

\* the keys of candidate_map in insertion order
RECURSIVE map_keys(_, _, _)
map_keys(step_candidates, i, keys) ==
    IF i > Len(step_candidates) THEN keys
    ELSE LET k == Round3(step_candidates[i].time)
         IN map_keys(step_candidates, i + 1,
                     IF k \in Range(keys) THEN keys ELSE Append(keys, k))

\* candidate_map[k]: the last candidate whose rounded time is k
candidate_at(step_candidates, k) ==
    LET at == {i \in 1..Len(step_candidates) : Round3(step_candidates[i].time) = k}
    IN step_candidates[CHOOSE i \in at : \A j \in at : j <= i]

\* _place_holds_with_sources: the for-loop from note i on
RECURSIVE place_source_holds_walk(_, _, _, _, _)
place_source_holds_walk(sustained_notes, i, step_candidates, holds, cfg) ==
    IF i > Len(sustained_notes) THEN holds
    ELSE
      LET note == sustained_notes[i]
          duration == note.end_time - note.start_time
          nearest_time == NearestTo(map_keys(step_candidates, 1, <<>>), note.start_time)
      IN IF ~hold_in_bounds(note, cfg)
         THEN place_source_holds_walk(sustained_notes, i + 1, step_candidates, holds, cfg)
         ELSE IF /\ nearest_time # None
                 /\ nearest_time[1] # 0
                 /\ Abs(nearest_time[1] - note.start_time) < Ms(200)
         THEN LET candidate == candidate_at(step_candidates, nearest_time[1])
                  arrow == IF candidate.suggested_arrows # <<>>
                           THEN candidate.suggested_arrows[1]
                           ELSE pitch_to_arrow(note.pitch)
              IN place_source_holds_walk(sustained_notes, i + 1, step_candidates,
                     Append(holds,
                            MkStep(nearest_time[1], <<arrow>>, HOLD,
                                   <<Min2(duration, cfg.max_hold_duration)>>)),
                     cfg)
         ELSE place_source_holds_walk(sustained_notes, i + 1, step_candidates, holds, cfg)

place_holds_with_sources(sustained_notes, step_candidates, cfg) ==
    Take(place_source_holds_walk(sustained_notes, 1, step_candidates, <<>>, cfg),
         max_holds(Len(step_candidates), cfg))

\* the target of a section without the floor of one candidate
source_target_without_minimum(count, section, cfg) ==
    LET scale == IF cfg.name = "beginner" THEN 4
                 ELSE IF cfg.name = "expert" THEN 12
                 ELSE 10
    IN (count * (500 + 4 * section.energy_level) * scale) \div 10000

\* lines 127-134: the number of candidates a section uses
source_target(count, section, cfg) ==
    LET scale == IF cfg.name = "beginner" THEN 4
                 ELSE IF cfg.name = "expert" THEN 12
                 ELSE 10
    IN Max2(1, (count * (500 + 4 * section.energy_level) * scale) \div 10000)

\* Phase 2: the loop over the energy sections; the state is steps and used_times
RECURSIVE source_sections(_, _, _, _, _, _, _)
source_sections(energy_sections, i, steps, used_times, step_candidates, hold_steps, cfg) ==
    IF i > Len(energy_sections) THEN steps
    ELSE
      LET section == energy_sections[i]
          Usable(c) == /\ section.start_time <= c.time
                       /\ c.time <= section.end_time
                       /\ Round3(c.time) \notin used_times
          section_candidates == SelectSeq(step_candidates, Usable)
          target_count == source_target(Len(section_candidates), section, cfg)
          sorted == SortPairs([k \in 1..Len(section_candidates) |->
                                 <<0 - section_candidates[k].priority,
                                   section_candidates[k]>>])
          selected == Take([k \in 1..Len(sorted) |-> sorted[k][2]], target_count)
          section_steps == candidates_to_steps(selected, section.intensity, hold_steps)
      IN IF section_candidates = <<>>
         THEN source_sections(energy_sections, i + 1, steps, used_times,
                              step_candidates, hold_steps, cfg)
         ELSE source_sections(energy_sections, i + 1, steps \o section_steps,
                              used_times \cup {Round3(section_steps[k].time) :
                                                  k \in 1..Len(section_steps)},
                              step_candidates, hold_steps, cfg)

\* Phase 3: jumps on energy peaks.  The first hold_count entries of steps are
\* the hold_steps objects themselves, so a promotion of a hold step is seen by
\* the later look-ups of held arrows.
RECURSIVE peak_jumps(_, _, _, _)
peak_jumps(energy_peaks, i, steps, hold_count) ==
    IF i > Len(energy_peaks) THEN steps
    ELSE
      LET peak_time == energy_peaks[i]
          existing == {k \in 1..Len(steps) : Abs(steps[k].time - peak_time) < Ms(100)}
          first == CHOOSE k \in existing : \A j \in existing : k <= j
          held == get_held_arrows_at_time(Take(steps, hold_count), peak_time)
          second_arrow == get_jump_partner(steps[first].arrows[1])
      IN IF existing # {} /\ Len(steps[first].arrows) = 1 /\ second_arrow \notin held
         THEN peak_jumps(energy_peaks, i + 1,
                         [steps EXCEPT ![first].arrows = Append(@, second_arrow)],
                         hold_count)
         ELSE peak_jumps(energy_peaks, i + 1, steps, hold_count)

generate_from_sources(step_candidates, energy_sections, sustained_notes, cfg) ==
    LET hold_steps == IF cfg.allow_holds /\ sustained_notes # <<>>
                      THEN place_holds_with_sources(sustained_notes, step_candidates, cfg)
                      ELSE <<>>
        used_times == {hold_steps[i].time : i \in 1..Len(hold_steps)}
        phase2 == source_sections(energy_sections, 1, hold_steps, used_times,
                                  step_candidates, hold_steps, cfg)
    IN IF cfg.allow_doubles
       THEN peak_jumps(detect_energy_peaks(energy_sections), 1, phase2, Len(hold_steps))
       ELSE phase2

\* ------------------------------------------------------------------------
\* generator.py: generate_chart
\* ------------------------------------------------------------------------
\* lines 61-72: the steps before sorting.  onset_times and step_candidates are
\* Optional: None, or <<list>> when the caller supplies a list (an empty list
\* is falsy, as None is)
generate_steps(beats, subdivisions, energy_sections, sustained_notes, onset_times, step_candidates, cfg) ==
    IF step_candidates # None /\ step_candidates[1] # <<>>
    THEN [raised |-> FALSE,
          steps |-> generate_from_sources(step_candidates[1], energy_sections,
                                          sustained_notes, cfg)]
    ELSE generate_from_beats(beats, subdivisions, energy_sections, sustained_notes,
                             IF onset_times = None THEN <<>> ELSE onset_times[1], cfg)

\* finish_chart with the Chart's difficulty hard-coded to the default name
finish_chart_fixed_difficulty(steps, structure, tempo, cfg) ==
    [steps |-> validate_chart(adjust_for_structure(SortByTime(steps), structure), cfg),
     difficulty |-> "intermediate",
     tempo |-> tempo,
     duration |-> structure.total_duration]

\* lines 74-92: sort, shape, validate, wrap
finish_chart(steps, structure, tempo, cfg) ==
    [steps |-> validate_chart(adjust_for_structure(SortByTime(steps), structure), cfg),
     difficulty |-> cfg.name,
     tempo |-> tempo,
     duration |-> structure.total_duration]

generate_chart(beats, subdivisions, energy_sections, sustained_notes, structure, tempo, onset_times, step_candidates, cfg) ==
    LET made == generate_steps(beats, subdivisions, energy_sections, sustained_notes,
                               onset_times, step_candidates, cfg)
    IN IF made.raised THEN <<"ValueError">>
       ELSE <<"ok", finish_chart(made.steps, structure, tempo, cfg)>>

\* ------------------------------------------------------------------------
\* generator.py: what a call leaves of the objects the caller passed in.
\* The only in-place operations of generate_chart on something that can be
\* one of its arguments are those on available_beats: extend (line 326) and
\* remove (line 351).  They reach the caller's list for as long as
\* available_beats is bound to it; lines 327 and 336 bind a new list.
\* ------------------------------------------------------------------------
\* available_beats = onset_times: the caller's list itself
bind_available_beats_to_argument(onset_times) == [list |-> onset_times, is_argument |-> TRUE]

\* line 323: available_beats = list(onset_times), a list of its own
bind_available_beats(onset_times) == [list |-> onset_times, is_argument |-> FALSE]

\* the caller's onset_times list after lines 322-351 of _generate_from_beats
onset_times_after(beats, subdivisions, energy_sections, sustained_notes, onset_times, cfg) ==
    LET bound == IF cfg.use_onsets /\ onset_times # <<>>
                 THEN bind_available_beats(onset_times)
                 ELSE [list |-> filter_beats(beats, cfg), is_argument |-> FALSE]
        subdivided == cfg.use_8th_notes \/ cfg.use_16th_notes
        with_holds == cfg.allow_holds /\ sustained_notes # <<>>
    IN IF ~bound.is_argument THEN onset_times
       ELSE IF subdivided THEN onset_times \o subdivisions
       ELSE IF with_holds THEN onset_times
       ELSE peak_accents(detect_energy_peaks(energy_sections), 1, <<>>,
                         onset_times, cfg).available_beats

\* the arguments as the caller finds them after generate_chart: the candidate
\* path (lines 94-161) builds new lists and new Step objects only
arguments_after(args, cfg) ==
    IF args.step_candidates # None /\ args.step_candidates[1] # <<>> THEN args
    ELSE IF args.onset_times = None THEN args
    ELSE [args EXCEPT !.onset_times =
             << onset_times_after(args.beats, args.subdivisions, args.energy_sections,
                                  args.sustained_notes, args.onset_times[1], cfg) >>]

\* ------------------------------------------------------------------------
\* pipeline.py: ChartExporter.to_json
\* ------------------------------------------------------------------------
\* round(x, 2) of a duration in ticks
Round2(t) == ((t + 50) \div 100) * 100

\* round(x, 1) of a tempo in hundredths of a BPM
Round1(bpm) == ((bpm + 5) \div 10) * 10

step_to_json(step) ==
    [time |-> Round3(step.time),
     arrows |-> step.arrows,
     type |-> step.step_type,
     hold_duration |-> IF step.step_type = HOLD
                       THEN <<Round3(step.hold_duration[1])>>
                       ELSE None]

\* sum(len(s.arrows) for s in steps)
RECURSIVE total_arrows(_)
total_arrows(steps) ==
    IF steps = <<>> THEN 0
    ELSE Len(Head(steps).arrows) + total_arrows(Tail(steps))

to_json(c) ==
    [difficulty |-> c.difficulty,
     tempo |-> Round1(c.tempo),
     duration |-> Round2(c.duration),
     steps |-> [i \in 1..Len(c.steps) |-> step_to_json(c.steps[i])],
     stats |-> [total_steps |-> Len(c.steps),
                total_arrows |-> total_arrows(c.steps),
                tap_notes |-> Len(SelectSeq(c.steps, LAMBDA x : x.step_type = TAP)),
                hold_notes |-> Len(SelectSeq(c.steps, LAMBDA x : x.step_type = HOLD)),
                singles |-> Len(SelectSeq(c.steps, LAMBDA x : Len(x.arrows) = 1)),
                doubles |-> Len(SelectSeq(c.steps, LAMBDA x : Len(x.arrows) = 2))]]

\* ------------------------------------------------------------------------
\* the inputs a caller hands to generate_chart
\* ------------------------------------------------------------------------
MaxEvents == 7

SectionLength == 20000

EventStarts == {0, 10000}

EventSpacings == {500, 2000, 3000, 4000}

CandidateShift == 304

BeatTypes == <<"downbeat", "offbeat", "upbeat", "offbeat">>

BeatStrengths == <<90, 30, 60, 30>>

Priorities == <<10, 3, 9, 3, 6>>

Suggestions == << <<>>, <<UP>>, <<LEFT, RIGHT>> >>

EventTimes(start, spacing, n) == [i \in 1..n |-> start + (i - 1) * spacing]

\* beats as analyze_beats classifies them: position i % 4 in the measure
BeatsAt(times) ==
    [i \in 1..Len(times) |->
        [time |-> times[i],
         strength |-> BeatStrengths[((i - 1) % 4) + 1],
         beat_type |-> BeatTypes[((i - 1) % 4) + 1]]]

\* one onset between the first two beats
SubdivisionsOf(times) ==
    IF Len(times) >= 2 THEN <<(times[1] + times[2]) \div 2>> ELSE <<>>

CandidatesAt(times) ==
    [i \in 1..Len(times) |->
        [time |-> times[i] + CandidateShift,
         priority |-> Priorities[((i - 1) % 5) + 1],
         suggested_arrows |-> Suggestions[((i - 1) % 3) + 1]]]

IntensityOf(energy) ==
    IF energy < 30 THEN "low"
    ELSE IF energy < 60 THEN "medium"
    ELSE IF energy < 85 THEN "high"
    ELSE "climax"

\* contiguous windows of SectionLength, as analyze_energy lays them out
SectionsOf(profile) ==
    [i \in 1..Len(profile) |->
        [start_time |-> (i - 1) * SectionLength,
         end_time |-> i * SectionLength,
         energy_level |-> profile[i],
         intensity |-> IntensityOf(profile[i])]]

EnergyProfiles ==
    { <<>>, <<90>>, <<50, 75>>, <<20, 90, 50>>, <<75, 90, 90, 20>>,
      <<20, 90, 20, 75, 20>> }

NoteSets ==
    { <<>>,
      << [start_time |-> 10000, end_time |-> 19000, pitch |-> 50] >>,
      << [start_time |-> 10000, end_time |-> 19000, pitch |-> 50],
         [start_time |-> 20000, end_time |-> 55000, pitch |-> 72] >>,
      << [start_time |-> 20000, end_time |-> 55000, pitch |-> 72] >>,
      << [start_time |-> 500, end_time |-> 9500, pitch |-> 58],
         [start_time |-> 30000, end_time |-> 33000, pitch |-> 65] >> }

Structures ==
    { [intro |-> <<0, 5000>>, outro |-> <<55000, 60000>>, total_duration |-> 60000],
      [intro |-> <<0, 12000>>, outro |-> <<16000, 60000>>, total_duration |-> 60000] }

CandidateModes == {"none", "empty", "list"}

InputsFor(times, mode, profile, notes, struct) ==
    [beats |-> BeatsAt(times),
     subdivisions |-> SubdivisionsOf(times),
     energy_sections |-> SectionsOf(profile),
     sustained_notes |-> notes,
     structure |-> struct,
     tempo |-> 12004,
     onset_times |-> None,
     step_candidates |-> CASE mode = "none" -> None
                           [] mode = "empty" -> << <<>> >>
                           [] OTHER -> << CandidatesAt(times) >>]

OnsetShift == 120

\* the onsets of a track: one shortly after every beat
OnsetsAt(times) == [i \in 1..Len(times) |-> times[i] + OnsetShift]

\* ------------------------------------------------------------------------
\* state
\* ------------------------------------------------------------------------
VARIABLES
    pc,        \* where the caller is
    config,    \* self.config of the StepGenerator
    inputs,    \* the arguments of generate_chart
    chart,     \* None, or <<the Chart object the caller holds>>
    returned,  \* None, or <<the Chart as generate_chart returned it>> (history)
    exports,   \* the records ChartExporter.to_json returned so far
    pipeline,  \* one call of ChartGenerationPipeline.generate_from_audio
    built,     \* Step constructor calls: the objects made and the last outcome
    stage,     \* the last call of one method of the StepGenerator on its own
    shared     \* generations of several difficulties from the same arguments

vars == <<pc, config, inputs, chart, returned, exports, pipeline, built, stage, shared>>

NoPipeline ==
    [audio |-> "song", difficulty |-> "intermediate", at |-> "idle", config |-> None,
     ran |-> <<>>, result |-> None, lookup |-> None]

NoneBuilt == [objects |-> <<>>, outcome |-> None]

NoStage == [method |-> "none", args |-> <<>>, result |-> <<>>]

NoShared == [arguments |-> <<>>, original |-> <<>>, charts |-> <<>>]

Init ==
    /\ pc = "ready"
    /\ \E name \in PresetNames : config = DIFFICULTY_PRESETS[name]
    /\ \E start \in EventStarts, spacing \in EventSpacings, n \in 0..MaxEvents,
          mode \in CandidateModes, profile \in EnergyProfiles, notes \in NoteSets,
          struct \in Structures :
          inputs = InputsFor(EventTimes(start, spacing, n), mode, profile, notes, struct)
    /\ chart = None
    /\ returned = None
    /\ exports = <<>>
    /\ pipeline = NoPipeline
    /\ built = NoneBuilt
    /\ stage = NoStage
    /\ shared = NoShared

\* StepGenerator(config).generate_chart(**inputs)
GenerateChart ==
    /\ pc = "ready"
    /\ LET call == generate_chart(inputs.beats, inputs.subdivisions,
                                  inputs.energy_sections, inputs.sustained_notes,
                                  inputs.structure, inputs.tempo, inputs.onset_times,
                                  inputs.step_candidates, config)
       IN IF call[1] = "ok"
          THEN chart' = <<call[2]>> /\ pc' = "generated"
          ELSE chart' = None /\ pc' = "raised"
    /\ returned' = chart'
    /\ UNCHANGED <<config, inputs, exports, pipeline, built, stage, shared>>

\* ChartExporter.to_json(chart) that also rounds the step times of the Chart
\* it is given, in place
ToJsonRoundingInPlace ==
    /\ pc = "generated"
    /\ Len(exports) < 2
    /\ exports' = Append(exports, to_json(chart[1]))
    /\ chart' = << [chart[1] EXCEPT !.steps =
                       [i \in 1..Len(@) |-> [@[i] EXCEPT !.time = Round3(@)]]] >>
    /\ UNCHANGED <<pc, config, inputs, returned, pipeline, built, stage, shared>>

\* ChartExporter.to_json(chart), called up to twice on the same Chart
ToJson ==
    /\ pc = "generated"
    /\ Len(exports) < 2
    /\ exports' = Append(exports, to_json(chart[1]))
    /\ UNCHANGED <<pc, config, inputs, chart, returned, pipeline, built, stage, shared>>

Next == GenerateChart \/ ToJson

Spec == Init /\ [][Next]_vars

\* ------------------------------------------------------------------------
\* ChartGenerationPipeline.generate_from_audio and get_difficulty_config
\* ------------------------------------------------------------------------
DifficultyNames == PresetNames \cup {"hard", "Expert", "easy", ""}

AudioFiles == {"missing", "song", "silence"}

\* the analysis phases that run between the preset lookup and generate_chart
AnalysisPhases ==
    << "separate_harmonic_percussive", "detect_drum_events", "analyze_beats",
       "detect_subdivisions", "analyze_energy", "detect_structure",
       "score_beat_prominence", "detect_melody_notes_pyin" >>

\* DIFFICULTY_PRESETS[difficulty] with a fallback preset
preset_lookup_with_default(difficulty) ==
    IF difficulty \in PresetNames THEN <<"ok", DIFFICULTY_PRESETS[difficulty]>>
    ELSE <<"ok", DIFFICULTY_PRESETS["intermediate"]>>

\* DIFFICULTY_PRESETS[difficulty]
preset_lookup(difficulty) ==
    IF difficulty \in PresetNames THEN <<"ok", DIFFICULTY_PRESETS[difficulty]>>
    ELSE <<"KeyError">>

InitPipeline ==
    /\ pc = "ready"
    /\ config = DIFFICULTY_PRESETS["intermediate"]
    /\ inputs = InputsFor(<<>>, "none", <<>>, <<>>,
                          [intro |-> <<0, 5000>>, outro |-> <<55000, 60000>>,
                           total_duration |-> 60000])
    /\ chart = None
    /\ returned = None
    /\ exports = <<>>
    /\ built = NoneBuilt
    /\ stage = NoStage
    /\ shared = NoShared
    /\ \E audio \in AudioFiles, difficulty \in DifficultyNames :
          pipeline = [NoPipeline EXCEPT !.audio = audio, !.difficulty = difficulty,
                                        !.at = "load"]

\* y, sr = librosa.load(audio_path)
LoadAudio ==
    /\ pipeline.at = "load"
    /\ pipeline' =
          IF pipeline.audio = "missing"
          THEN [pipeline EXCEPT !.at = "raised", !.result = <<"FileNotFoundError">>]
          ELSE [pipeline EXCEPT !.at = "lookup"]
    /\ UNCHANGED <<pc, config, inputs, chart, returned, exports, built, stage, shared>>

\* config = DIFFICULTY_PRESETS[difficulty]
LookupPreset ==
    /\ pipeline.at = "lookup"
    /\ LET found == preset_lookup(pipeline.difficulty)
       IN pipeline' =
             IF found[1] = "ok"
             THEN [pipeline EXCEPT !.at = "analysis", !.config = <<found[2]>>]
             ELSE [pipeline EXCEPT !.at = "raised", !.result = <<found[1]>>]
    /\ UNCHANGED <<pc, config, inputs, chart, returned, exports, built, stage, shared>>

\* Phases 1 to 5, one call at a time
RunAnalysisPhase ==
    /\ pipeline.at = "analysis"
    /\ Len(pipeline.ran) < Len(AnalysisPhases)
    /\ pipeline' = [pipeline EXCEPT !.ran = Append(@, AnalysisPhases[Len(@) + 1])]
    /\ UNCHANGED <<pc, config, inputs, chart, returned, exports, built, stage, shared>>

\* the fallback to detect_sustained_notes, Phase 6 (skipped unless
\* config.use_onsets) and the construction of the StepGenerator
PrepareGenerator ==
    /\ pipeline.at = "analysis"
    /\ Len(pipeline.ran) = Len(AnalysisPhases)
    /\ LET fallback == IF pipeline.audio = "silence"
                       THEN <<"detect_sustained_notes">> ELSE <<>>
           onsets == IF pipeline.config[1].use_onsets
                     THEN <<"analyze_weighted_onsets", "quantize_to_grid">> ELSE <<>>
       IN pipeline' = [pipeline EXCEPT !.at = "generate",
                                       !.ran = @ \o fallback \o onsets]
    /\ UNCHANGED <<pc, config, inputs, chart, returned, exports, built, stage, shared>>

\* generator.generate_chart(..., drum_track=..., weighted_onsets=...): the
\* method takes neither keyword
CallGenerateChart ==
    /\ pipeline.at = "generate"
    /\ pipeline' = [pipeline EXCEPT !.at = "raised", !.result = <<"TypeError">>]
    /\ UNCHANGED <<pc, config, inputs, chart, returned, exports, built, stage, shared>>

\* a caller asks get_difficulty_config for the same name
GetDifficultyConfig ==
    /\ pipeline.at # "idle"
    /\ pipeline.lookup = None
    /\ pipeline' = [pipeline EXCEPT !.lookup = <<get_difficulty_config(pipeline.difficulty)>>]
    /\ UNCHANGED <<pc, config, inputs, chart, returned, exports, built, stage, shared>>

NextPipeline ==
    \/ LoadAudio
    \/ LookupPreset
    \/ RunAnalysisPhase
    \/ PrepareGenerator
    \/ CallGenerateChart
    \/ GetDifficultyConfig

SpecPipeline == InitPipeline /\ [][NextPipeline]_vars

\* ------------------------------------------------------------------------
\* construction of Step objects: the pydantic model of schemas.py and the
\* dataclass of services/step_generator_new.py
\* ------------------------------------------------------------------------
Omitted == [given |-> FALSE, value |-> None]

Given(v) == [given |-> TRUE, value |-> v]

\* the keyword arguments of a constructor call
StepArguments ==
    [time : {10304},
     arrows : {<<LEFT>>, <<LEFT, RIGHT>>},
     step_type : {TAP, HOLD},
     hold_duration : {Omitted, Given(None), Given(<<0>>), Given(<<9000>>)}]

\* Step.validate_hold_duration(v, info) with info.data['step_type'] = step_type
validate_hold_duration(v, step_type) ==
    IF step_type = HOLD /\ v = None THEN <<"ValueError">>
    ELSE IF step_type = TAP /\ v # None THEN <<"ValueError">>
    ELSE <<"ok", v>>

\* schemas.Step(**args): the field validator runs on a value that is passed,
\* not on the field's default
schemas_Step(args) ==
    IF args.hold_duration.given
    THEN LET checked == validate_hold_duration(args.hold_duration.value, args.step_type)
         IN IF checked[1] = "ok"
            THEN <<"ok", MkStep(args.time, args.arrows, args.step_type, checked[2])>>
            ELSE checked
    ELSE <<"ok", MkStep(args.time, args.arrows, args.step_type, None)>>

\* Step.__post_init__ of the dataclass
post_init(step) ==
    IF step.step_type = HOLD /\ step.hold_duration = None THEN <<"ValueError">>
    ELSE IF step.step_type = TAP /\ step.hold_duration # None THEN <<"ValueError">>
    ELSE <<"ok", step>>

\* services.step_generator_new.Step(**args)
dataclass_Step(args) ==
    post_init(MkStep(args.time, args.arrows, args.step_type,
                     IF args.hold_duration.given THEN args.hold_duration.value ELSE None))

MaxBuilt == 2

InitStep ==
    /\ pc = "ready"
    /\ config = DIFFICULTY_PRESETS["intermediate"]
    /\ inputs = InputsFor(<<>>, "none", <<>>, <<>>,
                          [intro |-> <<0, 5000>>, outro |-> <<55000, 60000>>,
                           total_duration |-> 60000])
    /\ chart = None
    /\ returned = None
    /\ exports = <<>>
    /\ pipeline = NoPipeline
    /\ built = NoneBuilt
    /\ stage = NoStage
    /\ shared = NoShared

\* the constructor calls so far, after one more call with the result made
after_call(class, made, args) ==
    [objects |-> IF made[1] = "ok"
                 THEN Append(built.objects, [class |-> class, step |-> made[2]])
                 ELSE built.objects,
     outcome |-> << [class |-> class, args |-> args, result |-> made[1]] >>]

\* Step(...) of modules/step_generator/schemas.py
ConstructSchemaStep ==
    /\ Len(built.objects) < MaxBuilt
    /\ \E args \in StepArguments :
          built' = after_call("schemas", schemas_Step(args), args)
    /\ UNCHANGED <<pc, config, inputs, chart, returned, exports, pipeline, stage, shared>>

\* Step(...) of services/step_generator_new.py
ConstructDataclassStep ==
    /\ Len(built.objects) < MaxBuilt
    /\ \E args \in StepArguments :
          built' = after_call("dataclass", dataclass_Step(args), args)
    /\ UNCHANGED <<pc, config, inputs, chart, returned, exports, pipeline, stage, shared>>

NextStep == ConstructSchemaStep \/ ConstructDataclassStep

SpecStep == InitStep /\ [][NextStep]_vars

\* ------------------------------------------------------------------------
\* several StepGenerators, one per difficulty, called in any order with the
\* same argument objects (the Feature Extractor's output)
\* ------------------------------------------------------------------------
TierNames == {"beginner", "intermediate", "expert", "expert-onsets"}

\* the DifficultyConfig of a tier; use_onsets (schemas.py line 158) is a field
\* a caller sets on its own DifficultyConfig, no preset does
TierConfig(tier) ==
    IF tier = "expert-onsets"
    THEN [DIFFICULTY_PRESETS["expert"] EXCEPT !.use_onsets = TRUE]
    ELSE DIFFICULTY_PRESETS[tier]

SharedSpacings == {2000, 3000}

SharedNoteSets ==
    { <<>>,
      << [start_time |-> 10000, end_time |-> 19000, pitch |-> 50] >>,
      << [start_time |-> 500, end_time |-> 9500, pitch |-> 58],
         [start_time |-> 30000, end_time |-> 33000, pitch |-> 65] >> }

SharedStructure == [intro |-> <<0, 5000>>, outro |-> <<55000, 60000>>, total_duration |-> 60000]

\* generate_chart over a record of arguments
generate_chart_from(args, cfg) ==
    generate_chart(args.beats, args.subdivisions, args.energy_sections,
                   args.sustained_notes, args.structure, args.tempo,
                   args.onset_times, args.step_candidates, cfg)

InitShared ==
    /\ pc = "ready"
    /\ config = DIFFICULTY_PRESETS["intermediate"]
    /\ inputs = InputsFor(<<>>, "none", <<>>, <<>>, SharedStructure)
    /\ chart = None
    /\ returned = None
    /\ exports = <<>>
    /\ pipeline = NoPipeline
    /\ built = NoneBuilt
    /\ stage = NoStage
    /\ \E start \in EventStarts, spacing \in SharedSpacings, n \in 0..MaxEvents,
          mode \in {"none", "list"}, profile \in EnergyProfiles,
          notes \in SharedNoteSets, with_onsets \in BOOLEAN :
          LET times == EventTimes(start, spacing, n)
              args == [InputsFor(times, mode, profile, notes, SharedStructure)
                          EXCEPT !.onset_times =
                              IF with_onsets THEN << OnsetsAt(times) >> ELSE None]
          IN shared = [arguments |-> args, original |-> args,
                       charts |-> [t \in TierNames |-> None]]

\* StepGenerator(TierConfig(tier)).generate_chart(**arguments) for a tier that
\* has not been generated yet; the call returns a Chart or raises
GenerateTier ==
    /\ \E tier \in TierNames :
          /\ shared.charts[tier] = None
          /\ shared' = [shared EXCEPT
                           !.charts[tier] = << generate_chart_from(shared.arguments,
                                                                   TierConfig(tier)) >>,
                           !.arguments = arguments_after(@, TierConfig(tier))]
    /\ UNCHANGED <<pc, config, inputs, chart, returned, exports, pipeline, built, stage>>

NextShared == GenerateTier

SpecShared == InitShared /\ [][NextShared]_vars

\* ------------------------------------------------------------------------
\* one method of a StepGenerator called on its own
\* ------------------------------------------------------------------------
\* sustained notes: in bounds for every preset (0.9 s, 0.9 s, 1.0 s), too short
\* (0.3 s) and too long (4.5 s)
StageNotePool ==
    { [start_time |-> 20000, end_time |-> 29000, pitch |-> 58],
      [start_time |-> 500, end_time |-> 9500, pitch |-> 50],
      [start_time |-> 40000, end_time |-> 43000, pitch |-> 72],
      [start_time |-> 60000, end_time |-> 105000, pitch |-> 65],
      [start_time |-> 80000, end_time |-> 90000, pitch |-> 61] }

MaxStageNotes == 3

\* the sustained_notes lists: up to MaxStageNotes different notes in any order
StageNoteLists ==
    {notes \in UNION {[1..n -> StageNotePool] : n \in 0..MaxStageNotes} :
        \A i, j \in 1..Len(notes) : i # j => notes[i] # notes[j]}

\* the times of the anchors (candidates or beats) hold placement looks at
StageAnchorLists ==
    { <<>>,
      <<20200>>,
      <<19900, 20200>>,
      <<0, 20200, 40100, 60000, 81900>>,
      <<300, 20200, 40100, 60000, 81900>>,
      <<0, 10000, 20200, 30000, 40100, 50000, 60000, 70000, 80100, 90000>> }

\* candidates at the given times, with or without arrows suggested by the source
StageCandidates(times, suggesting) ==
    [i \in 1..Len(times) |->
        [time |-> times[i],
         priority |-> Priorities[((i - 1) % 5) + 1],
         suggested_arrows |-> IF suggesting THEN Suggestions[((i - 1) % 3) + 1]
                              ELSE <<>>]]

InitStages ==
    /\ pc = "ready"
    /\ config = DIFFICULTY_PRESETS["intermediate"]
    /\ inputs = InputsFor(<<>>, "none", <<>>, <<>>, SharedStructure)
    /\ chart = None
    /\ returned = None
    /\ exports = <<>>
    /\ pipeline = NoPipeline
    /\ built = NoneBuilt
    /\ stage = NoStage
    /\ shared = NoShared

\* StepGenerator(cfg)._place_holds_with_sources(sustained_notes, step_candidates)
CallPlaceHoldsWithSources ==
    /\ stage = NoStage
    /\ \E name \in PresetNames, notes \in StageNoteLists, times \in StageAnchorLists,
          suggesting \in BOOLEAN :
          LET cfg == DIFFICULTY_PRESETS[name]
              candidates == StageCandidates(times, suggesting)
          IN stage' = [method |-> "_place_holds_with_sources",
                       args |-> [config |-> cfg, sustained_notes |-> notes,
                                 step_candidates |-> candidates],
                       result |-> place_holds_with_sources(notes, candidates, cfg)]
    /\ UNCHANGED <<pc, config, inputs, chart, returned, exports, pipeline, built, shared>>

\* StepGenerator(cfg)._place_holds(sustained_notes, available_beats)
CallPlaceHolds ==
    /\ stage = NoStage
    /\ \E name \in PresetNames, notes \in StageNoteLists, times \in StageAnchorLists :
          LET cfg == DIFFICULTY_PRESETS[name]
          IN stage' = [method |-> "_place_holds",
                       args |-> [config |-> cfg, sustained_notes |-> notes,
                                 available_beats |-> times],
                       result |-> place_holds(notes, times, cfg)]
    /\ UNCHANGED <<pc, config, inputs, chart, returned, exports, pipeline, built, shared>>

StageStarts == {10000, 10400}

StageSpacings == {500, 1000, 2000}

MaxStageBeats == 7

Intensities == {"low", "medium", "high", "climax"}

\* evenly spaced times, and the same with the last one 80 ms late
StageBeatLists ==
    LET even == {EventTimes(start, spacing, n) :
                    start \in StageStarts, spacing \in StageSpacings, n \in 0..MaxStageBeats}
    IN even \cup {[times EXCEPT ![Len(times)] = @ + Ms(80)] : times \in even \ {<<>>}}

\* StepGenerator(cfg)._generate_patterns(beat_times, intensity, structure)
CallGeneratePatterns ==
    /\ stage = NoStage
    /\ \E name \in PresetNames, beat_times \in StageBeatLists, intensity \in Intensities :
          LET cfg == DIFFICULTY_PRESETS[name]
          IN stage' = [method |-> "_generate_patterns",
                       args |-> [config |-> cfg, beat_times |-> beat_times,
                                 intensity |-> intensity],
                       result |-> generate_patterns(beat_times, intensity, cfg)]
    /\ UNCHANGED <<pc, config, inputs, chart, returned, exports, pipeline, built, shared>>

\* the times pattern choice is asked about: every value of int(time * 100) % 100,
\* in two different seconds, on and off the 10 ms grid
StageTimes == {sec * TicksPerSecond + seed * 100 + sub : sec \in {0, 3}, seed \in 0..99, sub \in {0, 37}}

\* the presets, and the intermediate preset with one permission withdrawn
StageConfigs ==
    {DIFFICULTY_PRESETS[name] : name \in PresetNames}
    \cup {[DIFFICULTY_PRESETS["intermediate"] EXCEPT !.allow_doubles = FALSE],
          [DIFFICULTY_PRESETS["intermediate"] EXCEPT !.allow_crossovers = FALSE],
          [DIFFICULTY_PRESETS["intermediate"] EXCEPT !.max_stream_length = 0]}

\* StepGenerator(cfg)._choose_pattern(time, intensity, structure, existing_steps)
CallChoosePattern ==
    /\ stage = NoStage
    /\ \E cfg \in StageConfigs, time \in StageTimes, intensity \in Intensities \cup {"unknown"} :
          stage' = [method |-> "_choose_pattern",
                    args |-> [config |-> cfg, time |-> time, intensity |-> intensity],
                    result |-> choose_pattern(time, intensity, cfg)]
    /\ UNCHANGED <<pc, config, inputs, chart, returned, exports, pipeline, built, shared>>

MaxArrowCount == 2

\* StepGenerator(cfg)._choose_spread_arrow(prev, counts, current_time, held_arrows)
CallChooseSpreadArrow ==
    /\ stage = NoStage
    /\ \E prev \in {None} \cup {<<d>> : d \in Direction},
          counts \in [Direction -> 0..MaxArrowCount],
          current_time \in {Ms(1000), Ms(2550), Ms(3800)},
          held_arrows \in SUBSET Direction :
          stage' = [method |-> "_choose_spread_arrow",
                    args |-> [prev |-> prev, counts |-> counts,
                              current_time |-> current_time, held_arrows |-> held_arrows],
                    result |-> choose_spread_arrow(prev, counts, current_time, held_arrows)]
    /\ UNCHANGED <<pc, config, inputs, chart, returned, exports, pipeline, built, shared>>

\* StepGenerator(cfg)._generate_from_beats(beats, subdivisions, energy_sections,
\* sustained_notes, structure, tempo, onset_times): the steps before sorting,
\* shaping and validation
CallGenerateFromBeats ==
    /\ stage = NoStage
    /\ \E tier \in TierNames, start \in EventStarts, spacing \in EventSpacings,
          n \in 0..MaxEvents, profile \in EnergyProfiles, notes \in NoteSets,
          with_onsets \in BOOLEAN :
          LET times == EventTimes(start, spacing, n)
              args == [InputsFor(times, "none", profile, notes, SharedStructure)
                          EXCEPT !.onset_times = IF with_onsets THEN OnsetsAt(times) ELSE <<>>]
          IN stage' = [method |-> "_generate_from_beats",
                       args |-> [config |-> TierConfig(tier), beats |-> args.beats,
                                 subdivisions |-> args.subdivisions,
                                 energy_sections |-> args.energy_sections,
                                 sustained_notes |-> args.sustained_notes,
                                 onset_times |-> args.onset_times],
                       result |-> generate_from_beats(args.beats, args.subdivisions,
                                                      args.energy_sections,
                                                      args.sustained_notes,
                                                      args.onset_times, TierConfig(tier))]
    /\ UNCHANGED <<pc, config, inputs, chart, returned, exports, pipeline, built, shared>>

\* StepGenerator(cfg)._generate_from_sources(step_candidates, energy_sections,
\* sustained_notes, structure, tempo)
CallGenerateFromSources ==
    /\ stage = NoStage
    /\ \E name \in PresetNames, start \in EventStarts, spacing \in EventSpacings,
          n \in 1..MaxEvents, profile \in EnergyProfiles, notes \in NoteSets :
          LET cfg == DIFFICULTY_PRESETS[name]
              candidates == CandidatesAt(EventTimes(start, spacing, n))
              sections == SectionsOf(profile)
          IN stage' = [method |-> "_generate_from_sources",
                       args |-> [config |-> cfg, step_candidates |-> candidates,
                                 energy_sections |-> sections, sustained_notes |-> notes],
                       result |-> [raised |-> FALSE,
                                   steps |-> generate_from_sources(candidates, sections,
                                                                   notes, cfg)]]
    /\ UNCHANGED <<pc, config, inputs, chart, returned, exports, pipeline, built, shared>>

\* energy levels 0.00, 0.05, ... 1.00
StageEnergies == {5 * k : k \in 0..20}

\* one energy window, starting at 0, and n times inside it
StageWindow(energy) ==
    [start_time |-> 0, end_time |-> SectionLength, energy_level |-> energy,
     intensity |-> IntensityOf(energy)]

StageWindowTimes(n) == EventTimes(500, 2000, n)

\* one turn of the window loop of _generate_from_beats (lines 356-371): the
\* beats the window uses
CallSelectForWindow ==
    /\ stage = NoStage
    /\ \E tier \in TierNames, energy \in StageEnergies, n \in 0..MaxEvents :
          LET cfg == TierConfig(tier)
              section == StageWindow(energy)
              beats == BeatsAt(StageWindowTimes(n))
              InSection(b) == section.start_time <= b /\ b <= section.end_time
              section_beats == SelectSeq(StageWindowTimes(n), InSection)
          IN stage' = [method |-> "_generate_from_beats: window",
                       args |-> [config |-> cfg, section |-> section,
                                 available_beats |-> StageWindowTimes(n)],
                       result |-> select_beats_by_energy(
                                      section_beats, beats,
                                      section_target(Len(section_beats), section, cfg), cfg)]
    /\ UNCHANGED <<pc, config, inputs, chart, returned, exports, pipeline, built, shared>>

\* one turn of the window loop of _generate_from_sources (lines 118-143): the
\* steps of the candidates the window selects
CallSelectSourcesForWindow ==
    /\ stage = NoStage
    /\ \E name \in PresetNames, energy \in StageEnergies, n \in 0..MaxEvents :
          LET cfg == DIFFICULTY_PRESETS[name]
              section == StageWindow(energy)
              candidates == CandidatesAt(StageWindowTimes(n))
          IN stage' = [method |-> "_generate_from_sources: window",
                       args |-> [config |-> cfg, section |-> section,
                                 step_candidates |-> candidates],
                       result |-> source_sections(<<section>>, 1, <<>>, {}, candidates,
                                                  <<>>, cfg)]
    /\ UNCHANGED <<pc, config, inputs, chart, returned, exports, pipeline, built, shared>>

\* Python's round(num / den) for num >= 0, den > 0: the nearest integer, a
\* tie going to the even one
RoundHalfEven(num, den) ==
    LET q == num \div den
        r == num % den
    IN IF 2 * r < den THEN q
       ELSE IF 2 * r > den THEN q + 1
       ELSE IF q % 2 = 0 THEN q ELSE q + 1

\* audio_analysis.py lines 722-723: the grid spacing, (60 / tempo) /
\* (grid_division / 4) seconds, is GridNumerator / GridDenominator(tempo,
\* grid_division) ticks for a tempo in whole beats per minute
GridNumerator == 60 * TicksPerSecond * 4

GridDenominator(tempo, grid_division) == tempo * grid_division

\* line 728: round(t / grid_spacing)
grid_position(t, tempo, grid_division) ==
    RoundHalfEven(t * GridDenominator(tempo, grid_division), GridNumerator)

\* lines 729 and 736: grid_position * grid_spacing, rounded to 4 decimals
quantized_time(t, tempo, grid_division) ==
    RoundHalfEven(grid_position(t, tempo, grid_division) * GridNumerator,
                  GridDenominator(tempo, grid_division))

\* lines 733-739: the first occurrence of each value, in order
RECURSIVE unique_walk(_, _, _)
unique_walk(quantized, i, unique) ==
    IF i > Len(quantized) THEN unique
    ELSE unique_walk(quantized, i + 1,
                     IF quantized[i] \in Range(unique) THEN unique
                     ELSE Append(unique, quantized[i]))

\* quantize_to_grid that takes the grid line at or below each time
quantize_to_grid_below(times, tempo, grid_division) ==
    IF times = <<>> \/ tempo <= 0 THEN times
    ELSE SortNums(unique_walk(
            [i \in 1..Len(times) |->
                RoundHalfEven(((times[i] * GridDenominator(tempo, grid_division))
                                  \div GridNumerator) * GridNumerator,
                              GridDenominator(tempo, grid_division))],
            1, <<>>))

\* audio_analysis.py quantize_to_grid(times, tempo, grid_division)
quantize_to_grid(times, tempo, grid_division) ==
    IF times = <<>> \/ tempo <= 0 THEN times
    ELSE SortNums(unique_walk(
            [i \in 1..Len(times) |-> quantized_time(times[i], tempo, grid_division)],
            1, <<>>))

MaxQuantized == 3

\* times to quantize: on, next to and between the grid lines of the tempos
StageOnsetPool == {0, 1200, 2400, 2600, 4700, 10304}

StageOnsetLists ==
    UNION {[1..n -> StageOnsetPool] : n \in 0..MaxQuantized}

\* tempos in beats per minute
StageTempos == {0, -120, 120, 128}

GridDivisions == {4, 8, 16}

\* quantize_to_grid(times, tempo, grid_division)
CallQuantizeToGrid ==
    /\ stage = NoStage
    /\ \E times \in StageOnsetLists, tempo \in StageTempos, grid_division \in GridDivisions :
          stage' = [method |-> "quantize_to_grid",
                    args |-> [times |-> times, tempo |-> tempo,
                              grid_division |-> grid_division],
                    result |-> quantize_to_grid(times, tempo, grid_division)]
    /\ UNCHANGED <<pc, config, inputs, chart, returned, exports, pipeline, built, shared>>

\* hold steps handed to _candidates_to_steps: none, one that is over before
\* the first candidate, and one on each lane that covers the first candidates
StageHoldSteps ==
    {<<>>, <<MkStep(Ms(100), <<LEFT>>, HOLD, <<Ms(500)>>)>>}
        \cup {<<MkStep(Ms(900), <<d>>, HOLD, <<Ms(250)>>)>> : d \in Direction}

\* StepGenerator(cfg)._candidates_to_steps(candidates, intensity, hold_steps)
CallCandidatesToSteps ==
    /\ stage = NoStage
    /\ \E times \in StageBeatLists, suggesting \in BOOLEAN, intensity \in Intensities,
          hold_steps \in StageHoldSteps :
          stage' = [method |-> "_candidates_to_steps",
                    args |-> [candidates |-> StageCandidates(times, suggesting),
                              intensity |-> intensity, hold_steps |-> hold_steps],
                    result |-> candidates_to_steps(StageCandidates(times, suggesting),
                                                   intensity, hold_steps)]
    /\ UNCHANGED <<pc, config, inputs, chart, returned, exports, pipeline, built, shared>>

\* generator.py lines 453-502: one iteration of the while-loop of
\* _generate_patterns at (1-based) position i, up to the for-loop of a stream:
\* where the walk is next, the next position and the steps so far
walk_iteration(beat_times, i, steps, intensity, cfg) ==
    LET time == beat_times[i]
        n == Len(beat_times)
        pattern_choice == choose_pattern(time, intensity, cfg)
        single == [at |-> "while", i |-> i + 1,
                   steps |-> Append(steps, MkStep(time, <<choose_single_arrow(steps, time)>>,
                                                  TAP, None)),
                   stream_length |-> 0, interval |-> 0]
    IN
    IF pattern_choice = "stream" /\ (i - 1) + 4 < n THEN
        LET cnt == Min2(4, n - (i - 1) - 1)
            intervals == [j \in 1..cnt |-> beat_times[i + j] - beat_times[i + j - 1]]
            hi == CHOOSE x \in Range(intervals) : \A y \in Range(intervals) : y <= x
            lo == CHOOSE x \in Range(intervals) : \A y \in Range(intervals) : x <= y
        IN IF cnt > 0 /\ hi - lo < Ms(50)
           THEN [at |-> "for", i |-> i, steps |-> steps,
                 stream_length |-> Min2(cfg.max_stream_length, n - (i - 1)),
                 interval |-> intervals[1]]
           ELSE single
    ELSE IF pattern_choice = "jump" /\ cfg.allow_doubles THEN
        [at |-> "while", i |-> i + 1,
         steps |-> Append(steps, MkStep(time, jump_arrows(time), TAP, None)),
         stream_length |-> 0, interval |-> 0]
    ELSE IF pattern_choice = "crossover" /\ cfg.allow_crossovers THEN
        IF (i - 1) + 3 < n
        THEN [at |-> "while", i |-> i + 4,
              steps |-> steps \o [j \in 1..4 |->
                                    MkStep(beat_times[i + j - 1],
                                           <<(<<LEFT, RIGHT, LEFT, RIGHT>>)[j]>>, TAP, None)],
              stream_length |-> 0, interval |-> 0]
        ELSE single
    ELSE single

\* lines 466-467: the step of the j-th member of a stream that starts at
\* position i
stream_member(steps, beat_times, i, j, interval) ==
    MkStep(beat_times[i + j], <<choose_single_arrow(steps, beat_times[i] + j * interval)>>,
           TAP, None)

\* stream length caps of configurations other than the presets
StreamLengthCaps == {-1, 0, 1, 2}

\* the presets, and the expert preset with other stream length caps
WalkConfigs ==
    {DIFFICULTY_PRESETS[name] : name \in PresetNames}
        \cup {[DIFFICULTY_PRESETS["expert"] EXCEPT !.max_stream_length = cap] :
                 cap \in StreamLengthCaps}

\* lines 448-450: _generate_patterns is entered
WalkStart ==
    /\ stage = NoStage
    /\ \E cfg \in WalkConfigs, beat_times \in StageBeatLists, intensity \in Intensities :
          stage' = [method |-> "_generate_patterns",
                    args |-> [config |-> cfg, beat_times |-> beat_times,
                              intensity |-> intensity],
                    at |-> "while", beat_times |-> SortNums(beat_times),
                    i |-> 1, steps |-> <<>>, j |-> 0, stream_length |-> 0, interval |-> 0,
                    result |-> <<>>]
    /\ UNCHANGED <<pc, config, inputs, chart, returned, exports, pipeline, built, shared>>

\* lines 452-502: one iteration of the while-loop, up to the for-loop of a
\* stream
WalkIteration ==
    /\ stage.method = "_generate_patterns"
    /\ stage.at = "while"
    /\ stage.i <= Len(stage.beat_times)
    /\ LET next == walk_iteration(stage.beat_times, stage.i, stage.steps,
                                  stage.args.intensity, stage.args.config)
       IN stage' = [stage EXCEPT !.at = next.at, !.i = next.i, !.steps = next.steps,
                                 !.j = 0, !.stream_length = next.stream_length,
                                 !.interval = next.interval]
    /\ UNCHANGED <<pc, config, inputs, chart, returned, exports, pipeline, built, shared>>

\* lines 465-467: one member of a stream
StreamMember ==
    /\ stage.method = "_generate_patterns"
    /\ stage.at = "for"
    /\ stage.j < stage.stream_length
    /\ stage' = [stage EXCEPT
                    !.steps = Append(@, stream_member(stage.steps, stage.beat_times,
                                                      stage.i, stage.j, stage.interval)),
                    !.j = @ + 1]
    /\ UNCHANGED <<pc, config, inputs, chart, returned, exports, pipeline, built, shared>>

\* line 468: the stream is over, i += stream_length
StreamEnd ==
    /\ stage.method = "_generate_patterns"
    /\ stage.at = "for"
    /\ stage.j >= stage.stream_length
    /\ stage' = [stage EXCEPT !.at = "while", !.i = @ + stage.stream_length]
    /\ UNCHANGED <<pc, config, inputs, chart, returned, exports, pipeline, built, shared>>

\* lines 452 and 504: the loop condition fails and the steps are returned
WalkReturn ==
    /\ stage.method = "_generate_patterns"
    /\ stage.at = "while"
    /\ stage.i > Len(stage.beat_times)
    /\ stage' = [stage EXCEPT !.at = "returned", !.result = stage.steps]
    /\ UNCHANGED <<pc, config, inputs, chart, returned, exports, pipeline, built, shared>>

NextWalk == WalkStart \/ WalkIteration \/ StreamMember \/ StreamEnd \/ WalkReturn

\* the interpreter keeps running the loops and the return
SpecWalk ==
    /\ InitStages
    /\ [][NextWalk]_vars
    /\ WF_vars(WalkIteration)
    /\ WF_vars(StreamMember)
    /\ WF_vars(StreamEnd)
    /\ WF_vars(WalkReturn)

MaxStageSteps == 6

\* the times of a list of steps
StageStepTimes ==
    {EventTimes(start, spacing, n) :
        start \in {0, 150}, spacing \in {700, 1300, 7300}, n \in 0..MaxStageSteps}

\* the i-th step of a list: taps of one, two and (rich lists) five arrows, and
\* holds of 0.55 s and 3.5 s (rich lists: 4.5 s)
StageStepAt(i, time, rich) ==
    CASE i % 4 = 1 -> MkStep(time, <<LEFT>>, TAP, None)
      [] i % 4 = 2 -> MkStep(time, <<DOWN>>, HOLD, <<Ms(550)>>)
      [] i % 4 = 3 -> MkStep(time, IF rich THEN <<LEFT, DOWN, UP, RIGHT, LEFT>>
                                    ELSE <<LEFT, RIGHT>>, TAP, None)
      [] OTHER -> MkStep(time, <<UP>>, HOLD, <<IF rich THEN Ms(4500) ELSE Ms(3500)>>)

StageSteps(times, rich) == [i \in 1..Len(times) |-> StageStepAt(i, times[i], rich)]

\* StepGenerator(cfg)._adjust_for_structure(steps, structure)
CallAdjustForStructure ==
    /\ stage = NoStage
    /\ \E times \in StageStepTimes, rich \in BOOLEAN, structure \in Structures :
          stage' = [method |-> "_adjust_for_structure",
                    args |-> [steps |-> StageSteps(times, rich), structure |-> structure],
                    result |-> adjust_for_structure(StageSteps(times, rich), structure)]
    /\ UNCHANGED <<pc, config, inputs, chart, returned, exports, pipeline, built, shared>>

\* StepGenerator(cfg)._validate_chart(steps, tempo) on a time-sorted list
CallValidateChart ==
    /\ stage = NoStage
    /\ \E name \in PresetNames, times \in StageStepTimes, rich \in BOOLEAN :
          stage' = [method |-> "_validate_chart",
                    args |-> [config |-> DIFFICULTY_PRESETS[name],
                              steps |-> StageSteps(times, rich)],
                    result |-> validate_chart(StageSteps(times, rich),
                                              DIFFICULTY_PRESETS[name])]
    /\ UNCHANGED <<pc, config, inputs, chart, returned, exports, pipeline, built, shared>>

\* StepGenerator(cfg)._validate_chart(StepGenerator(cfg)._validate_chart(steps, tempo), tempo)
CallValidateChartAgain ==
    /\ stage = NoStage
    /\ \E name \in PresetNames, times \in StageStepTimes, rich \in BOOLEAN :
          LET cfg == DIFFICULTY_PRESETS[name]
              first == validate_chart(StageSteps(times, rich), cfg)
          IN stage' = [method |-> "_validate_chart again",
                       args |-> [config |-> cfg, steps |-> StageSteps(times, rich)],
                       result |-> [first |-> first, second |-> validate_chart(first, cfg)]]
    /\ UNCHANGED <<pc, config, inputs, chart, returned, exports, pipeline, built, shared>>

NextStages ==
    \/ CallPlaceHoldsWithSources
    \/ CallPlaceHolds
    \/ CallGeneratePatterns
    \/ CallChoosePattern
    \/ CallChooseSpreadArrow
    \/ CallGenerateFromBeats
    \/ CallGenerateFromSources
    \/ CallSelectForWindow
    \/ CallSelectSourcesForWindow
    \/ CallAdjustForStructure
    \/ CallValidateChart
    \/ CallQuantizeToGrid
    \/ CallCandidatesToSteps
    \/ CallValidateChartAgain

SpecStages == InitStages /\ [][NextStages]_vars

\* ------------------------------------------------------------------------
\* the two generation paths, one phase at a time.  stage.done lists the phases
\* in the order the code runs them, stage.steps is the steps list so far,
\* stage.offered the times the energy windows select from, stage.selected the
\* times they selected and stage.promoted the times of the jumps put on
\* energy peaks.
\* ------------------------------------------------------------------------
TimesOf(steps) == {steps[i].time : i \in 1..Len(steps)}

\* lines 322-328: the beats the beat path works with
available_beats_of(beats, subdivisions, onset_times, cfg) ==
    LET base == IF cfg.use_onsets /\ onset_times # <<>>
                THEN onset_times
                ELSE filter_beats(beats, cfg)
    IN IF cfg.use_8th_notes \/ cfg.use_16th_notes
       THEN SortedSet(Range(base \o subdivisions))
       ELSE base

\* _generate_from_beats, Phase 1 (lines 330-336)
BeatsPlaceHolds ==
    /\ stage = NoStage
    /\ \E name \in PresetNames, start \in EventStarts, spacing \in EventSpacings,
          n \in 0..MaxEvents, profile \in EnergyProfiles, notes \in NoteSets :
          LET cfg == DIFFICULTY_PRESETS[name]
              args == InputsFor(EventTimes(start, spacing, n), "none", profile, notes,
                                SharedStructure)
              available_beats == available_beats_of(args.beats, args.subdivisions, <<>>, cfg)
              with_holds == cfg.allow_holds /\ notes # <<>>
              hold_steps == IF with_holds THEN place_holds(notes, available_beats, cfg)
                            ELSE <<>>
          IN stage' = [method |-> "_generate_from_beats",
                       args |-> [config |-> cfg, beats |-> args.beats,
                                 subdivisions |-> args.subdivisions,
                                 energy_sections |-> args.energy_sections,
                                 sustained_notes |-> notes],
                       done |-> <<"holds">>,
                       steps |-> hold_steps,
                       pool |-> SelectSeq(available_beats,
                                          LAMBDA b : b \notin TimesOf(hold_steps)),
                       hold_count |-> Len(hold_steps),
                       offered |-> {}, selected |-> {}, promoted |-> {},
                       raised |-> FALSE]
    /\ UNCHANGED <<pc, config, inputs, chart, returned, exports, pipeline, built, shared>>

\* _generate_from_beats, Phase 2 (lines 338-351): accents on energy peaks
BeatsPromote ==
    /\ stage.method = "_generate_from_beats"
    /\ stage.done = <<"holds">>
    /\ LET accents == peak_accents(detect_energy_peaks(stage.args.energy_sections), 1,
                                   stage.steps, stage.pool, stage.args.config)
       IN stage' = [stage EXCEPT !.done = Append(@, "promotion"),
                                 !.steps = accents.steps,
                                 !.pool = accents.available_beats,
                                 !.promoted = TimesOf(SubSeq(accents.steps,
                                                             Len(stage.steps) + 1,
                                                             Len(accents.steps))),
                                 !.raised = accents.raised]
    /\ UNCHANGED <<pc, config, inputs, chart, returned, exports, pipeline, built, shared>>

\* _generate_from_beats, Phase 3 (lines 353-377): the energy windows
BeatsSelect ==
    /\ stage.method = "_generate_from_beats"
    /\ stage.done = <<"holds", "promotion">>
    /\ ~stage.raised
    /\ LET steps == fill_sections(stage.args.energy_sections, 1, stage.steps, stage.pool,
                                  stage.args.beats, stage.args.config)
       IN stage' = [stage EXCEPT !.done = Append(@, "selection"),
                                 !.steps = steps,
                                 !.offered = Range(stage.pool),
                                 !.selected = TimesOf(SubSeq(steps, Len(stage.steps) + 1,
                                                             Len(steps)))]
    /\ UNCHANGED <<pc, config, inputs, chart, returned, exports, pipeline, built, shared>>

\* _generate_from_sources, Phase 1 (lines 104-115)
SourcesPlaceHolds ==
    /\ stage = NoStage
    /\ \E name \in PresetNames, start \in EventStarts, spacing \in EventSpacings,
          n \in 1..MaxEvents, profile \in EnergyProfiles, notes \in NoteSets :
          LET cfg == DIFFICULTY_PRESETS[name]
              candidates == CandidatesAt(EventTimes(start, spacing, n))
              hold_steps == IF cfg.allow_holds /\ notes # <<>>
                            THEN place_holds_with_sources(notes, candidates, cfg)
                            ELSE <<>>
          IN stage' = [method |-> "_generate_from_sources",
                       args |-> [config |-> cfg, step_candidates |-> candidates,
                                 energy_sections |-> SectionsOf(profile),
                                 sustained_notes |-> notes],
                       done |-> <<"holds">>,
                       steps |-> hold_steps,
                       pool |-> SelectSeq(candidates,
                                          LAMBDA c : Round3(c.time) \notin TimesOf(hold_steps)),
                       hold_count |-> Len(hold_steps),
                       offered |-> {}, selected |-> {}, promoted |-> {},
                       raised |-> FALSE]
    /\ UNCHANGED <<pc, config, inputs, chart, returned, exports, pipeline, built, shared>>

\* _generate_from_sources, Phase 2 (lines 117-143): the energy windows
SourcesSelect ==
    /\ stage.method = "_generate_from_sources"
    /\ stage.done = <<"holds">>
    /\ LET steps == source_sections(stage.args.energy_sections, 1, stage.steps,
                                    TimesOf(stage.steps), stage.args.step_candidates,
                                    stage.steps, stage.args.config)
       IN stage' = [stage EXCEPT !.done = Append(@, "selection"),
                                 !.steps = steps,
                                 !.offered = {stage.pool[i].time : i \in 1..Len(stage.pool)},
                                 !.selected = TimesOf(SubSeq(steps, Len(stage.steps) + 1,
                                                             Len(steps)))]
    /\ UNCHANGED <<pc, config, inputs, chart, returned, exports, pipeline, built, shared>>

\* _generate_from_sources, Phase 3 (lines 147-159): jumps on energy peaks, run
\* only if the config allows doubles
SourcesPromote ==
    /\ stage.method = "_generate_from_sources"
    /\ stage.done = <<"holds", "selection">>
    /\ stage.args.config.allow_doubles
    /\ LET steps == peak_jumps(detect_energy_peaks(stage.args.energy_sections), 1,
                               stage.steps, stage.hold_count)
       IN stage' = [stage EXCEPT !.done = Append(@, "promotion"),
                                 !.steps = steps,
                                 !.promoted = {steps[k].time : k \in
                                                  {i \in 1..Len(steps) :
                                                      steps[i] # stage.steps[i]}}]
    /\ UNCHANGED <<pc, config, inputs, chart, returned, exports, pipeline, built, shared>>

NextPhases ==
    \/ BeatsPlaceHolds
    \/ BeatsPromote
    \/ BeatsSelect
    \/ SourcesPlaceHolds
    \/ SourcesSelect
    \/ SourcesPromote

SpecPhases == InitStages /\ [][NextPhases]_vars

\* ------------------------------------------------------------------------
\* what the claims speak about
\* ------------------------------------------------------------------------
Returned == pc = "generated"

ChartSteps == chart[1].steps

ChartPreset == DIFFICULTY_PRESETS[chart[1].difficulty]

CandidatePath == inputs.step_candidates # None /\ inputs.step_candidates[1] # <<>>

\* the steps as they enter the validator
ShapedSteps ==
    adjust_for_structure(
        SortByTime(generate_steps(inputs.beats, inputs.subdivisions, inputs.energy_sections,
                                  inputs.sustained_notes, inputs.onset_times,
                                  inputs.step_candidates, config).steps),
        inputs.structure)

Holds(steps) == {i \in 1..Len(steps) : steps[i].step_type = HOLD}

Taps(steps) == {i \in 1..Len(steps) : steps[i].step_type = TAP}

\* the minimum gaps the specification names
SpecMinGap(name) ==
    CASE name = "beginner" -> 3500
      [] name = "intermediate" -> 1500
      [] name = "expert" -> 800

\* C1: every returned chart is in strictly ascending time order and every two
\* consecutive steps are at least the difficulty's minimum gap apart
\* (0.35 s beginner, 0.15 s intermediate, 0.08 s expert), on both paths.
C1_SortedWithMinGap ==
    Returned =>
        \A i \in 1..(Len(ChartSteps) - 1) :
            /\ ChartSteps[i].time < ChartSteps[i + 1].time
            /\ ChartSteps[i + 1].time - ChartSteps[i].time >= SpecMinGap(chart[1].difficulty)

\* a chart of at least three steps from which the validator removed a step
C1_Witness ==
    /\ Returned
    /\ Len(ChartSteps) >= 3
    /\ Len(ChartSteps) < Len(ShapedSteps)

\* C2: no tap step of a returned chart contains the lane of a hold step of
\* that chart while the hold is active (hold.time <= tap.time <=
\* hold.time + holdDuration + 0.05 s).
C2_HeldLaneExclusive ==
    Returned =>
        \A t \in Taps(ChartSteps) : \A h \in Holds(ChartSteps) :
            (/\ ChartSteps[h].time <= ChartSteps[t].time
             /\ ChartSteps[t].time <=
                   ChartSteps[h].time + ChartSteps[h].hold_duration[1] + Ms(50))
            => Range(ChartSteps[h].arrows) \cap Range(ChartSteps[t].arrows) = {}

\* C3: every hold step of a returned chart has a hold duration within the
\* bounds of the chart's difficulty.
C3_HoldBounds ==
    Returned =>
        \A h \in Holds(ChartSteps) :
            /\ ChartSteps[h].hold_duration # None
            /\ ChartPreset.min_hold_duration <= ChartSteps[h].hold_duration[1]
            /\ ChartSteps[h].hold_duration[1] <= ChartPreset.max_hold_duration

\* a returned chart with a hold, generated from sustained notes of which one
\* is out of the difficulty's bounds
C3_Witness ==
    /\ Returned
    /\ Holds(ChartSteps) # {}
    /\ \E i \in 1..Len(inputs.sustained_notes) :
          ~hold_in_bounds(inputs.sustained_notes[i], config)

\* C4: every step of a returned chart has 1 to 4 arrows on distinct lanes,
\* and every step of a beginner chart has exactly one arrow.
C4_ArrowCap ==
    Returned =>
        \A i \in 1..Len(ChartSteps) :
            /\ 1 <= Len(ChartSteps[i].arrows)
            /\ Len(ChartSteps[i].arrows) <= 4
            /\ Cardinality(Range(ChartSteps[i].arrows)) = Len(ChartSteps[i].arrows)
            /\ Range(ChartSteps[i].arrows) \subseteq Direction
            /\ chart[1].difficulty = "beginner" => Len(ChartSteps[i].arrows) = 1

\* a returned chart that holds a jump made by energy-peak promotion on the
\* candidate path
C4_Witness ==
    /\ Returned
    /\ CandidatePath
    /\ \E i \in 1..Len(ChartSteps) : Len(ChartSteps[i].arrows) = 2

\* every input stream of generate_chart is empty
StreamsEmpty ==
    /\ inputs.beats = <<>>
    /\ inputs.subdivisions = <<>>
    /\ inputs.onset_times = None \/ inputs.onset_times[1] = <<>>
    /\ inputs.sustained_notes = <<>>

\* the times at which the chosen path may place a step
EventTimesOf(in) ==
    IF in.step_candidates # None /\ in.step_candidates[1] # <<>>
    THEN {in.step_candidates[1][i].time : i \in 1..Len(in.step_candidates[1])}
    ELSE {in.beats[i].time : i \in 1..Len(in.beats)} \cup Range(in.subdivisions)

InWindow(t, section) == section.start_time <= t /\ t <= section.end_time

EmptyWindows ==
    {w \in 1..Len(inputs.energy_sections) :
        \A t \in EventTimesOf(inputs) : ~InWindow(t, inputs.energy_sections[w])}

\* C7: with empty beats, subdivisions, onsets and sustained notes
\* generate_chart does not raise and the chart it returns has zero steps,
\* whatever the energy sections and the structure; and no step of a returned
\* chart lies in an energy window that contains no event.
C7_EmptyStreams ==
    /\ StreamsEmpty => pc # "raised"
    /\ Returned =>
          /\ StreamsEmpty => ChartSteps = <<>>
          /\ \A w \in EmptyWindows : \A i \in 1..Len(ChartSteps) :
                ~InWindow(ChartSteps[i].time, inputs.energy_sections[w])

\* a chart returned for empty streams with an energy peak among the
\* sections, by a generator that may place doubles
C7_Witness ==
    /\ Returned
    /\ StreamsEmpty
    /\ config.allow_doubles
    /\ detect_energy_peaks(inputs.energy_sections) # <<>>
    /\ ChartSteps = <<>>

\* C8: when step_candidates is supplied every step of the returned chart is
\* at the time of a supplied candidate, so that beats and subdivisions
\* contribute no step.
C8_CandidatePathWhenSupplied ==
    (Returned /\ inputs.step_candidates # None) =>
        \A i \in 1..Len(ChartSteps) :
            \E j \in 1..Len(inputs.step_candidates[1]) :
                ChartSteps[i].time = inputs.step_candidates[1][j].time

Consistent(step) ==
    /\ step.step_type = HOLD => step.hold_duration # None
    /\ step.step_type = TAP => step.hold_duration = None

\* C9: a constructor call whose step type and hold duration are
\* inconsistent raises, also when hold_duration is omitted, so every Step
\* object that exists is consistent.
C9_InconsistentStepRejected ==
    /\ \A i \in 1..Len(built.objects) : Consistent(built.objects[i].step)
    /\ built.outcome # None =>
          LET call == built.outcome[1]
              passed == IF call.args.hold_duration.given
                        THEN call.args.hold_duration.value ELSE None
          IN ~Consistent(MkStep(call.args.time, call.args.arrows,
                                call.args.step_type, passed))
             => call.result = "ValueError"

C11_SharedInputsUntouched ==
    /\ shared.arguments = shared.original
    /\ \A tier \in TierNames :
          shared.charts[tier] # None =>
              shared.charts[tier][1] = generate_chart_from(shared.original, TierConfig(tier))

\* all tiers generated, the onset-driven one included, from arguments with
\* onsets, subdivisions and an accent on an energy peak
C11_Witness ==
    /\ shared # NoShared
    /\ \A tier \in TierNames : shared.charts[tier] # None
    /\ shared.original.onset_times # None
    /\ shared.original.subdivisions # <<>>
    /\ shared.charts["expert-onsets"][1][1] = "ok"
    /\ shared.charts["expert-onsets"][1] # shared.charts["expert"][1]
    /\ \E k \in 1..Len(shared.charts["expert-onsets"][1][2].steps) :
          Len(shared.charts["expert-onsets"][1][2].steps[k].arrows) = 2

\* the sustained note of the hold example
ExampleNote == [start_time |-> 20000, end_time |-> 29000, pitch |-> 58]

\* a hold-placement call under the intermediate preset for the example note
\* alone, with an anchor at 2.02 s that is the nearest one and suggests no
\* arrow, and enough anchors for the cap to let one hold through
HoldExampleCall ==
    /\ stage.method \in {"_place_holds_with_sources", "_place_holds"}
    /\ stage.args.config = DIFFICULTY_PRESETS["intermediate"]
    /\ stage.args.sustained_notes = <<ExampleNote>>
    /\ IF stage.method = "_place_holds"
       THEN stage.args.available_beats = <<0, 20200, 40100, 60000, 81900>>
       ELSE stage.args.step_candidates =
                StageCandidates(<<0, 20200, 40100, 60000, 81900>>, FALSE)

\* C12: for the sustained note {start 2.0, end 2.9, pitch 58} under the
\* intermediate preset with a nearby candidate at 2.02, hold placement returns
\* the hold step {time 2.02, arrows [down], type hold, holdDuration 0.88}.
C12_HoldExample ==
    HoldExampleCall =>
        stage.result = << MkStep(Ms(2020), <<DOWN>>, HOLD, <<Ms(880)>>) >>

\* what the code returns for the example: the hold carries the note's own
\* duration, 0.9 s
HoldExampleAsCoded ==
    HoldExampleCall =>
        stage.result = << MkStep(Ms(2020), <<DOWN>>, HOLD, <<Ms(900)>>) >>

\* the foot a lane belongs to
FootOf(arrow) == IF arrow \in Range(left_foot) THEN "left" ELSE "right"

\* all the times of the list are the same interval apart
EvenlySpaced(times) ==
    \A j \in 2..(Len(times) - 1) : times[j + 1] - times[j] = times[2] - times[1]

\* a _generate_patterns call whose first candidate chooses 'stream' and is
\* followed by evenly spaced candidates
StreamCall ==
    /\ stage.method = "_generate_patterns"
    /\ Len(stage.args.beat_times) >= 2
    /\ EvenlySpaced(stage.args.beat_times)
    /\ choose_pattern(stage.args.beat_times[1], stage.args.intensity, stage.args.config)
           = "stream"

\* the first k steps are single-arrow taps at the first k times, consecutive
\* ones on opposite feet
IsStream(steps, times, k) ==
    /\ Len(steps) >= k
    /\ \A j \in 1..k :
          /\ steps[j].step_type = TAP
          /\ Len(steps[j].arrows) = 1
          /\ steps[j].time = times[j]
    /\ \A j \in 1..(k - 1) : FootOf(steps[j].arrows[1]) # FootOf(steps[j + 1].arrows[1])

\* C13: when pattern synthesis chooses 'stream' at a candidate followed by
\* evenly spaced candidates, it emits min(maxStreamLength, remaining
\* candidates) single-arrow taps, one at each of the next candidate times, every
\* two consecutive ones on opposite feet.
C13_StreamEmitted ==
    StreamCall =>
        IsStream(stage.result, stage.args.beat_times,
                 Min2(stage.args.config.max_stream_length, Len(stage.args.beat_times)))

\* the example of the claim: climax candidates at 1.0, 1.2, 1.4, 1.6, 1.8 give
\* five alternating taps at those times
StreamExampleAsCoded ==
    (/\ stage.method = "_generate_patterns"
     /\ stage.args.beat_times = EventTimes(Ms(1000), Ms(200), 5)
     /\ stage.args.intensity = "climax"
     /\ stage.args.config.max_stream_length > 0)
    => /\ Len(stage.result) = 5
       /\ IsStream(stage.result, stage.args.beat_times, 5)

\* a stream is emitted whenever at least four more candidates follow
StreamWithFourMoreAsCoded ==
    (StreamCall /\ Len(stage.args.beat_times) >= 5)
    => IsStream(stage.result, stage.args.beat_times,
                Min2(stage.args.config.max_stream_length, Len(stage.args.beat_times)))

\* the table of pattern choices as the claim states it
ClaimedPattern(seed, intensity, stream_cap, doubles, crossovers) ==
    IF intensity = "climax"
    THEN (IF seed < 40 /\ stream_cap > 0 THEN "stream"
          ELSE IF seed < 90 /\ doubles THEN "jump"
          ELSE "single")
    ELSE IF intensity = "high"
    THEN (IF seed < 25 /\ stream_cap > 0 THEN "stream"
          ELSE IF seed < 60 /\ doubles THEN "jump"
          ELSE IF seed < 80 /\ crossovers THEN "crossover"
          ELSE "single")
    ELSE IF intensity = "medium"
    THEN (IF seed < 30 /\ doubles THEN "jump"
          ELSE IF seed < 50 /\ crossovers THEN "crossover"
          ELSE "single")
    ELSE "single"

\* C14: the pattern chosen depends only on seed = floor(time*100) mod 100, the
\* window intensity and the config, and is the one the table gives: climax
\* stream/jump/single at 40/90, high stream/jump/crossover/single at 25/60/80,
\* medium jump/crossover/single at 30/50, anything else single.
C14_PatternTable ==
    stage.method = "_choose_pattern" =>
        stage.result = ClaimedPattern((stage.args.time \div 100) % 100,
                                      stage.args.intensity,
                                      stage.args.config.max_stream_length,
                                      stage.args.config.allow_doubles,
                                      stage.args.config.allow_crossovers)

\* a climax call between the two stream thresholds that chose stream, at a
\* time off the 10 ms grid
C14_Witness ==
    /\ stage.method = "_choose_pattern"
    /\ stage.args.intensity = "climax"
    /\ (stage.args.time \div 100) % 100 \in 25..39
    /\ stage.args.time % 100 # 0
    /\ stage.result = "stream"

\* the lanes of the foot that did not step last, and of the one that did
OppositeFoot(prev) == IF prev \in Range(left_foot) THEN Range(right_foot) ELSE Range(left_foot)

SameFoot(prev) == IF prev \in Range(left_foot) THEN Range(left_foot) ELSE Range(right_foot)

\* C15: given a previous lane and the held lanes, the arrow selector returns a
\* free lane of the opposite foot if there is one, otherwise a free lane of the
\* same foot, otherwise any free lane; it returns a held lane only when all
\* four lanes are held.
C15_SelectorFallback ==
    (stage.method = "_choose_spread_arrow" /\ stage.args.prev # None) =>
        LET free == Direction \ stage.args.held_arrows
            opposite == OppositeFoot(stage.args.prev[1]) \cap free
            same == SameFoot(stage.args.prev[1]) \cap free
        IN /\ stage.result \in (IF opposite # {} THEN opposite
                                 ELSE IF same # {} THEN same
                                 ELSE IF free # {} THEN free
                                 ELSE Direction)
           /\ stage.result \in stage.args.held_arrows => stage.args.held_arrows = Direction

\* the opposite foot is held entirely and the selector stays on the same foot
C15_Witness ==
    /\ stage.method = "_choose_spread_arrow"
    /\ stage.args.prev = <<LEFT>>
    /\ stage.args.held_arrows = {UP, RIGHT, LEFT}
    /\ stage.result = DOWN

\* a call of one of the two generation paths that returned its steps
PathCall ==
    /\ stage.method \in {"_generate_from_beats", "_generate_from_sources"}
    /\ ~stage.result.raised

\* no two steps of the list are at the same time
OneStepPerTime(steps) ==
    \A i, j \in 1..Len(steps) : i # j => steps[i].time # steps[j].time

\* C16: before validation every candidate time has become at most one step: a
\* time used as a hold anchor or selected by an earlier energy window is not
\* selected again by a later window, a time on the shared boundary of two
\* contiguous windows included.
C16_OneStepPerCandidateTime ==
    PathCall => OneStepPerTime(stage.result.steps)

\* the candidate path, which keeps used_times, never selects a time twice in
\* the calls where every hold has an anchor of its own
OneStepPerTimeOnCandidatePath ==
    (/\ PathCall
     /\ stage.method = "_generate_from_sources"
     /\ OneStepPerTime(SelectSeq(stage.result.steps, LAMBDA x : x.step_type = HOLD)))
    => OneStepPerTime(stage.result.steps)

\* a generation path has run all its phases and has put a jump on a peak
PromotionMade ==
    /\ stage.method \in {"_generate_from_beats", "_generate_from_sources"}
    /\ "done" \in DOMAIN stage
    /\ Len(stage.done) = 3
    /\ stage.promoted # {}

\* phase a is in the list before phase b
Before(done, a, b) ==
    \E i, j \in 1..Len(done) : i < j /\ done[i] = a /\ done[j] = b

\* the phases, put together, are the method
PhasesAreTheMethod ==
    (/\ stage.method \in {"_generate_from_beats", "_generate_from_sources"}
     /\ "done" \in DOMAIN stage
     /\ ~stage.raised
     /\ \/ Len(stage.done) = 3
        \/ stage.done = <<"holds", "selection">> /\ ~stage.args.config.allow_doubles)
    => stage.steps =
          IF stage.method = "_generate_from_beats"
          THEN generate_from_beats(stage.args.beats, stage.args.subdivisions,
                                   stage.args.energy_sections, stage.args.sustained_notes,
                                   <<>>, stage.args.config).steps
          ELSE generate_from_sources(stage.args.step_candidates, stage.args.energy_sections,
                                     stage.args.sustained_notes, stage.args.config)

\* C17: jump promotion at energy peaks runs before the window-based selection
\* and takes the promoted time out of the candidate pool: the windows are not
\* offered the promoted time, none of them selects it (so the jump uses no
\* window's budget), and the promoted jump is the only step at its time.
C17_PromotionBeforeSelection ==
    PromotionMade =>
        /\ Before(stage.done, "promotion", "selection")
        /\ stage.promoted \cap stage.offered = {}
        /\ stage.promoted \cap stage.selected = {}
        /\ \A t \in stage.promoted :
              Cardinality({i \in 1..Len(stage.steps) : stage.steps[i].time = t}) = 1

\* on the beat path the claim is what the code does
PromotionBeforeSelectionOnBeatPath ==
    (PromotionMade /\ stage.method = "_generate_from_beats" /\ ~stage.raised) =>
        /\ Before(stage.done, "promotion", "selection")
        /\ stage.promoted \cap stage.offered = {}
        /\ stage.promoted \cap stage.selected = {}
        /\ \A t \in stage.promoted :
              Cardinality({i \in 1..Len(stage.steps) : stage.steps[i].time = t}) = 1

\* a hold-placement call, the times of its anchors (candidates or beats) and
\* their number
HoldCall == stage.method \in {"_place_holds_with_sources", "_place_holds"}

AnchorTimes ==
    IF stage.method = "_place_holds" THEN stage.args.available_beats
    ELSE [i \in 1..Len(stage.args.step_candidates) |-> stage.args.step_candidates[i].time]

\* a note that qualifies for a hold: its duration is within the config's
\* bounds and some anchor is less than 200 ms from its start
Eligible(note, anchors, cfg) ==
    /\ cfg.min_hold_duration <= note.end_time - note.start_time
    /\ note.end_time - note.start_time <= cfg.max_hold_duration
    /\ \E k \in 1..Len(anchors) : Abs(anchors[k] - note.start_time) < Ms(200)

EligibleNotes ==
    SelectSeq(stage.args.sustained_notes,
              LAMBDA note : Eligible(note, AnchorTimes, stage.args.config))

\* floor(candidateCount * holdPercentage), holdPercentage in hundredths
HoldCap == (Len(AnchorTimes) * stage.args.config.hold_percentage) \div 100

NearestWithin(anchors, t) ==
    \E k \in 1..Len(anchors) : Abs(anchors[k] - t) < Ms(200)

\* a nearest anchor of the time: no anchor is closer
IsNearest(anchors, a, t) ==
    /\ a \in Range(anchors)
    /\ \A k \in 1..Len(anchors) : Abs(a - t) <= Abs(anchors[k] - t)

\* C19: a sustained note with a duration within the config's bounds gets a
\* hold at the anchor nearest its start whenever that anchor is within 200 ms,
\* whatever the anchor's time (0 included); a note out of bounds or without an
\* anchor within 200 ms gets none.  Checked on calls with a single note and a
\* cap of at least one hold, so that the cap drops nothing.
C19_HoldAtNearestAnchor ==
    (HoldCall /\ Len(stage.args.sustained_notes) = 1 /\ HoldCap >= 1) =>
        LET note == stage.args.sustained_notes[1]
        IN IF Eligible(note, AnchorTimes, stage.args.config)
           THEN /\ Len(stage.result) = 1
                /\ stage.result[1].step_type = HOLD
                /\ IsNearest(AnchorTimes, stage.result[1].time, note.start_time)
           ELSE stage.result = <<>>

\* the same with the anchors at time 0 left out
HoldAtNearestPositiveAnchor ==
    (/\ HoldCall
     /\ Len(stage.args.sustained_notes) = 1
     /\ HoldCap >= 1
     /\ 0 \notin Range(AnchorTimes)) =>
        LET note == stage.args.sustained_notes[1]
        IN IF Eligible(note, AnchorTimes, stage.args.config)
           THEN /\ Len(stage.result) = 1
                /\ stage.result[1].step_type = HOLD
                /\ IsNearest(AnchorTimes, stage.result[1].time, note.start_time)
           ELSE stage.result = <<>>

\* a turn of a window loop, and the number of candidates available to it
WindowCall ==
    stage.method \in {"_generate_from_beats: window", "_generate_from_sources: window"}

WindowCount ==
    IF stage.method = "_generate_from_beats: window"
    THEN Len(stage.args.available_beats)
    ELSE Len(stage.args.step_candidates)

\* floor(count x (0.8 + 0.2 x energyLevel)) for an onset-driven difficulty,
\* min(count, floor(count x (1 + (energyLevel - 0.5) x energyScaleFactor)))
\* otherwise; energy in hundredths, the scale factor in tenths
ClaimedTarget(count, energy, cfg) ==
    IF cfg.use_onsets
    THEN (count * (8000 + 20 * energy)) \div 10000
    ELSE Min2(count, (count * (1000 + (energy - 50) * cfg.energy_scale_factor)) \div 1000)

\* min(count, max(1, floor(count x (0.5 + 0.4 x energyLevel) x m))) with m = 0.4
\* for beginner, 1.2 for expert and 1 otherwise; nothing for an empty window
SourceTarget(count, energy, cfg) ==
    LET tenths == IF cfg.name = "beginner" THEN 4
                  ELSE IF cfg.name = "expert" THEN 12 ELSE 10
    IN IF count = 0 THEN 0
       ELSE Min2(count, Max2(1, (count * (5000 + 40 * energy) * tenths) \div 100000))

\* C20 as stated: in every energy window the number of candidates selected is
\* floor(count x (0.8 + 0.2 x energyLevel)) for an onset-driven difficulty and
\* min(count, floor(count x (1 + (energyLevel - 0.5) x energyScaleFactor)))
\* otherwise, and never more than count.
C20_TargetCount ==
    WindowCall =>
        /\ Len(stage.result) = ClaimedTarget(WindowCount, stage.args.section.energy_level,
                                             stage.args.config)
        /\ Len(stage.result) <= WindowCount

\* C20 amended: the two formulas are those of the beat path; on the candidate
\* path a non-empty window selects min(count, max(1, floor(count x (0.5 + 0.4 x
\* energyLevel) x m))) candidates, m = 0.4 for beginner, 1.2 for expert and 1
\* otherwise.  On both paths the number never exceeds count.
C20_TargetCountPerPath ==
    WindowCall =>
        /\ Len(stage.result) =
              IF stage.method = "_generate_from_beats: window"
              THEN ClaimedTarget(WindowCount, stage.args.section.energy_level,
                                 stage.args.config)
              ELSE SourceTarget(WindowCount, stage.args.section.energy_level,
                                stage.args.config)
        /\ Len(stage.result) <= WindowCount

\* a candidate-path window of 5 candidates at energy 0.9 under intermediate
\* selects 4, where the beat-path formula gives 5
C20_Witness ==
    /\ stage.method = "_generate_from_sources: window"
    /\ stage.args.config.name = "intermediate"
    /\ stage.args.section.energy_level = 90
    /\ WindowCount = 5
    /\ Len(stage.result) = 4
    /\ ClaimedTarget(5, 90, stage.args.config) = 5

\* floor(time * 100) mod 10 of a time in ticks
ShapingSeed(time) == (time \div 100) % 10

\* the step lies inside the window <<start, end>>
InsideWindow(step, window) == window[1] <= step.time /\ step.time <= window[2]

\* C21: structural shaping keeps a step inside the intro window iff
\* floor(time*100) mod 10 < 3 and a step inside the outro window iff
\* floor(time*100) mod 10 < 4; every step outside both windows is kept, and the
\* kept steps come out in their order and with their contents.
C21_StructuralShaping ==
    stage.method = "_adjust_for_structure" =>
        stage.result =
            SelectSeq(stage.args.steps,
                      LAMBDA s :
                          IF InsideWindow(s, stage.args.structure.intro)
                          THEN ShapingSeed(s.time) < 3
                          ELSE IF InsideWindow(s, stage.args.structure.outro)
                          THEN ShapingSeed(s.time) < 4
                          ELSE TRUE)

\* a call that drops an intro step, keeps an outro step whose seed is 3, drops
\* another outro step and keeps a step between the windows
C21_Witness ==
    /\ stage.method = "_adjust_for_structure"
    /\ \E i \in 1..Len(stage.args.steps) :
          /\ InsideWindow(stage.args.steps[i], stage.args.structure.intro)
          /\ stage.args.steps[i] \notin Range(stage.result)
    /\ \E i \in 1..Len(stage.result) :
          /\ InsideWindow(stage.result[i], stage.args.structure.outro)
          /\ ShapingSeed(stage.result[i].time) = 3
    /\ \E i \in 1..Len(stage.args.steps) :
          /\ InsideWindow(stage.args.steps[i], stage.args.structure.outro)
          /\ stage.args.steps[i] \notin Range(stage.result)
    /\ \E i \in 1..Len(stage.result) :
          /\ ~InsideWindow(stage.result[i], stage.args.structure.intro)
          /\ ~InsideWindow(stage.result[i], stage.args.structure.outro)

\* the positions a walk keeps when it keeps the first step and every later
\* step that is at least gap after the last kept one
KeptByGap(steps, kept, gap) ==
    /\ kept \subseteq 1..Len(steps)
    /\ steps # <<>> => 1 \in kept
    /\ \A i \in 2..Len(steps) :
          LET before == {k \in kept : k < i}
              last == CHOOSE k \in before : \A m \in before : m <= k
          IN i \in kept <=> steps[i].time - steps[last].time >= gap

\* C22: on a time-sorted list the validator keeps the first step and keeps a
\* later step exactly when it is at least the minimum gap after the most
\* recently kept step; so every dropped step is closer than the gap to the kept
\* step before it, and the kept steps stay in their order.
C22_GapFromLastKept ==
    stage.method = "_validate_chart" =>
        \E kept \in SUBSET (1..Len(stage.args.steps)) :
            /\ KeptByGap(stage.args.steps, kept, SpecMinGap(stage.args.config.name))
            /\ Len(stage.result) = Cardinality(kept)
            /\ \A j \in 1..Len(stage.result) :
                  \E i \in kept :
                      /\ Cardinality({k \in kept : k <= i}) = j
                      /\ stage.result[j].time = stage.args.steps[i].time

\* the second step is dropped and the third is kept although it is closer
\* than the gap to the second
C22_Witness ==
    /\ stage.method = "_validate_chart"
    /\ Len(stage.args.steps) >= 3
    /\ Len(stage.result) >= 2
    /\ stage.result[2].time = stage.args.steps[3].time
    /\ stage.args.steps[3].time - stage.args.steps[2].time
          < SpecMinGap(stage.args.config.name)

\* a _generate_patterns call whose first candidate chooses 'stream'
StreamChosen ==
    /\ stage.method = "_generate_patterns"
    /\ stage.args.beat_times # <<>>
    /\ choose_pattern(stage.args.beat_times[1], stage.args.intensity, stage.args.config)
           = "stream"

\* every two intervals between consecutive times of the list differ by less
\* than 50 ms
WithinFiftyMs(times) ==
    \A i, j \in 1..(Len(times) - 1) :
        Abs((times[i + 1] - times[i]) - (times[j + 1] - times[j])) < Ms(50)

\* the walk when the first candidate gets one single tap and the choice starts
\* afresh at the second
DegradedToSingle ==
    pattern_walk(stage.args.beat_times, 2,
                 <<MkStep(stage.args.beat_times[1], <<LEFT>>, TAP, None)>>,
                 stage.args.intensity, stage.args.config)

\* C23: a stream that pattern synthesis emits is a run of evenly spaced taps,
\* all intervals between its member times within 50 ms of each other, whatever
\* its length up to maxStreamLength; when the upcoming candidates are not
\* evenly spaced the stream degrades to one single tap.
C23_StreamsEvenlySpaced ==
    StreamChosen =>
        LET members == Take(stage.args.beat_times,
                            Min2(stage.args.config.max_stream_length,
                                 Len(stage.args.beat_times)))
        IN IF WithinFiftyMs(members)
           THEN TRUE
           ELSE stage.result = DegradedToSingle

\* the same for the candidates whose unevenness shows within the four
\* intervals the code compares
StreamsEvenOverFourIntervals ==
    (StreamChosen /\ ~WithinFiftyMs(Take(stage.args.beat_times, 5)))
    => stage.result = DegradedToSingle


(***************************************************************************)
(* C24: every hold step of a chart returned by generate_chart has exactly  *)
(* one arrow.                                                              *)
(***************************************************************************)
C24_HoldsHaveOneArrow ==
    Returned => \A i \in Holds(ChartSteps) : Len(ChartSteps[i].arrows) = 1

\* The same on the beat-based path alone (no candidates supplied).
HoldsHaveOneArrowOnBeatPath ==
    (Returned /\ inputs.step_candidates = <<>>) =>
        \A i \in Holds(ChartSteps) : Len(ChartSteps[i].arrows) = 1


\* the step of the argument list that a step of the result comes from (the
\* times of the argument list are distinct)
SourceOf(r) == CHOOSE s \in Range(stage.args.steps) : s.time = r.time

\* C25: every step the validator returns has a hold duration exactly when its
\* type is hold; a hold shorter than min_hold_duration comes out as a tap
\* with no hold duration and with its time and arrows unchanged, and a hold
\* longer than max_hold_duration comes out as a hold of exactly
\* max_hold_duration.
C25_HoldDurationIffHold ==
    stage.method = "_validate_chart" =>
        \A j \in 1..Len(stage.result) :
            LET r == stage.result[j]
                s == SourceOf(r)
                cfg == stage.args.config
            IN /\ (r.hold_duration # None) <=> (r.step_type = HOLD)
               /\ (s.step_type = HOLD /\ s.hold_duration[1] < cfg.min_hold_duration)
                     => r = MkStep(s.time, s.arrows, TAP, None)
               /\ (s.step_type = HOLD /\ s.hold_duration[1] > cfg.max_hold_duration)
                     => r = MkStep(s.time, s.arrows, HOLD, <<cfg.max_hold_duration>>)
               /\ (s.step_type = HOLD /\ s.hold_duration[1] >= cfg.min_hold_duration
                                      /\ s.hold_duration[1] <= cfg.max_hold_duration)
                     => r = s

\* one call demotes a short hold and clamps a long one
C25_Witness ==
    /\ stage.method = "_validate_chart"
    /\ \E j \in 1..Len(stage.result) :
          /\ SourceOf(stage.result[j]).step_type = HOLD
          /\ stage.result[j].step_type = TAP
    /\ \E j \in 1..Len(stage.result) :
          /\ stage.result[j].step_type = HOLD
          /\ SourceOf(stage.result[j]).hold_duration[1] > stage.args.config.max_hold_duration
          /\ stage.result[j].hold_duration = <<stage.args.config.max_hold_duration>>

\* the same holds of every chart generate_chart returns, whose last stage is
\* the validator
ChartHoldDurationIffHold ==
    Returned =>
        \A i \in 1..Len(ChartSteps) :
            (ChartSteps[i].hold_duration # None) <=> (ChartSteps[i].step_type = HOLD)


QuantizeCall == stage.method = "quantize_to_grid" /\ stage.args.tempo > 0

\* the result is in ascending order with no two times equal
StrictlyAscending(s) == \A i \in 1..Len(s) - 1 : s[i] < s[i + 1]

\* x is exactly round(t / grid) * grid
OnGridLineOf(x, t) ==
    x * GridDenominator(stage.args.tempo, stage.args.grid_division)
        = grid_position(t, stage.args.tempo, stage.args.grid_division) * GridNumerator

\* C26: with tempo > 0 grid quantization returns times in ascending order, no
\* two equal, each being round(t / grid) * grid for some input time t, where
\* grid = (60 / tempo) / (grid_division / 4); with a non-positive tempo the
\* input times are returned unchanged.
C26_QuantizedOnGrid ==
    /\ QuantizeCall =>
          /\ StrictlyAscending(stage.result)
          /\ \A j \in 1..Len(stage.result) :
                \E i \in 1..Len(stage.args.times) :
                    OnGridLineOf(stage.result[j], stage.args.times[i])
    /\ (stage.method = "quantize_to_grid" /\ stage.args.tempo <= 0) =>
          stage.result = stage.args.times

\* x is round(t / grid) * grid rounded to 4 decimals
RoundedGridLineOf(x, t) ==
    /\ 2 * Abs(x * GridDenominator(stage.args.tempo, stage.args.grid_division)
               - grid_position(t, stage.args.tempo, stage.args.grid_division) * GridNumerator)
          <= GridDenominator(stage.args.tempo, stage.args.grid_division)
    /\ 2 * Abs(t * GridDenominator(stage.args.tempo, stage.args.grid_division)
               - grid_position(t, stage.args.tempo, stage.args.grid_division) * GridNumerator)
          <= GridNumerator

\* C26 as the code has it: the returned times are the grid lines rounded to 4
\* decimals (to within half of 0.0001 s of the grid line nearest to an input
\* time), every input time is represented, and the rest is as stated.
C26_QuantizedOnRoundedGrid ==
    /\ QuantizeCall =>
          /\ StrictlyAscending(stage.result)
          /\ \A j \in 1..Len(stage.result) :
                \E i \in 1..Len(stage.args.times) :
                    RoundedGridLineOf(stage.result[j], stage.args.times[i])
          /\ \A i \in 1..Len(stage.args.times) :
                \E j \in 1..Len(stage.result) :
                    RoundedGridLineOf(stage.result[j], stage.args.times[i])
    /\ (stage.method = "quantize_to_grid" /\ stage.args.tempo <= 0) =>
          stage.result = stage.args.times

\* three times at 128 beats per minute of which two fall on one grid line
\* that is no multiple of 0.0001 s
C26_Witness ==
    /\ QuantizeCall
    /\ stage.args.tempo = 128
    /\ Len(stage.args.times) = 3
    /\ Len(stage.result) = 2
    /\ \E j \in 1..Len(stage.result) :
          \A i \in 1..Len(stage.args.times) :
              ~OnGridLineOf(stage.result[j], stage.args.times[i])


\* a call of pattern synthesis, on either path, that emitted a step
SynthesisCall ==
    /\ stage.method \in {"_generate_patterns", "_candidates_to_steps"}
    /\ stage.result # <<>>

FirstTapLeftOnBeatPath ==
    /\ stage.method = "_generate_patterns"
    /\ Len(stage.result) >= 3
    /\ stage.result[1].arrows = <<LEFT>>
    /\ stage.args.intensity = "high"

\* on the candidate path the first tap is on lane left whenever no hold is
\* active on lane left at its time
FirstTapLeftUnlessHeld ==
    (stage.method = "_candidates_to_steps" /\ stage.result # <<>>
        /\ LEFT \notin get_held_arrows_at_time(stage.args.hold_steps,
                                                stage.args.candidates[1].time))
       => stage.result[1].arrows = <<LEFT>>

\* the first step of the beat-based path is a jump that has no arrow on lane
\* left
FirstStepIsJumpOffLeft ==
    /\ stage.method = "_generate_patterns"
    /\ stage.result # <<>>
    /\ Len(stage.result[1].arrows) = 2
    /\ LEFT \notin Range(stage.result[1].arrows)


\* the times a synthesis call was given, in ascending order
SynthesisTimes ==
    IF stage.method = "_generate_patterns"
    THEN SortNums(stage.args.beat_times)
    ELSE SortNums([i \in 1..Len(stage.args.candidates) |-> stage.args.candidates[i].time])

\* C28: pattern synthesis emits exactly one step per input time: as many
\* steps as input times, at exactly the input times in ascending order, on
\* the beat-based path and on the candidate path.
C28_OneStepPerInputTime ==
    stage.method \in {"_generate_patterns", "_candidates_to_steps"} =>
        /\ Len(stage.result) = Len(SynthesisTimes)
        /\ \A k \in 1..Len(stage.result) : stage.result[k].time = SynthesisTimes[k]

\* a window of seven times that opens with a stream and also holds a jump
C28_Witness ==
    /\ StreamChosen
    /\ WithinFiftyMs(Take(stage.args.beat_times, 5))
    /\ Len(stage.result) = MaxStageBeats
    /\ \E k \in 1..Len(stage.result) : Len(stage.result[k].arrows) = 2

\* a window that contains a crossover run
CrossoverEmitted ==
    /\ stage.method = "_generate_patterns"
    /\ \E k \in 1..Len(stage.result) - 3 :
          /\ choose_pattern(stage.result[k].time, stage.args.intensity, stage.args.config)
                = "crossover"
          /\ \A j \in 0..3 : stage.result[k + j].arrows
                                = <<(<<LEFT, RIGHT, LEFT, RIGHT>>)[j + 1]>>


\* C29: the validator is idempotent: applied to its own output it returns
\* the same list of steps (times, arrows, types and hold durations), for
\* every preset.
C29_ValidatorIdempotent ==
    stage.method = "_validate_chart again" => stage.result.second = stage.result.first

\* a first pass that dropped a step and clamped a hold
C29_Witness ==
    /\ stage.method = "_validate_chart again"
    /\ 1 < Len(stage.result.first)
    /\ Len(stage.result.first) < Len(stage.args.steps)
    /\ \E j \in 1..Len(stage.result.first) :
          /\ stage.result.first[j].step_type = HOLD
          /\ stage.result.first[j] \notin Range(stage.args.steps)

\* a first pass that cut a step's arrows, demoted a hold and clamped a hold
FirstPassRepairs ==
    /\ stage.method = "_validate_chart again"
    /\ \E j \in 1..Len(stage.result.first) : \E i \in 1..Len(stage.args.steps) :
          /\ stage.args.steps[i].time = stage.result.first[j].time
          /\ Len(stage.result.first[j].arrows) < Len(stage.args.steps[i].arrows)
    /\ \E j \in 1..Len(stage.result.first) : \E i \in 1..Len(stage.args.steps) :
          /\ stage.args.steps[i].time = stage.result.first[j].time
          /\ stage.args.steps[i].step_type = HOLD
          /\ stage.result.first[j].step_type = TAP
    /\ \E j \in 1..Len(stage.result.first) :
          /\ stage.result.first[j].step_type = HOLD
          /\ stage.result.first[j] \notin Range(stage.args.steps)


Walking == stage.method = "_generate_patterns" /\ stage.at \in {"while", "for"}

WalkReturned == stage.method = "_generate_patterns" /\ stage.at = "returned"

\* every iteration of the walk moves the position forward by at least one
\* time: a step of the walk that ends an iteration has a later position, and
\* a stream that is begun has at least one member
IterationConsumes ==
    [][(Walking /\ Walking') =>
          IF stage'.at = "while" THEN stage'.i > stage.i
          ELSE stage'.i = stage.i /\ stage'.stream_length >= 1]_vars

\* C30: the pattern synthesis walk terminates for every finite list of times
\* and every configuration: each iteration consumes at least one time (a
\* stream is chosen only when max_stream_length > 0 and so has length >= 1),
\* and a walk that has been entered returns.
C30_WalkTerminates == IterationConsumes /\ (Walking ~> WalkReturned)

\* a walk under a stream length cap of 1 that returned seven steps, the first
\* of them a stream of one tap
C30_Witness ==
    /\ WalkReturned
    /\ stage.args.config.max_stream_length = 1
    /\ Len(stage.result) = MaxStageBeats
    /\ choose_pattern(stage.beat_times[1], stage.args.intensity, stage.args.config) = "stream"
    /\ WithinFiftyMs(Take(stage.beat_times, 5))

\* the walk, iteration by iteration, returns what _generate_patterns returns
WalkIsGeneratePatterns ==
    WalkReturned =>
        stage.result = generate_patterns(stage.args.beat_times, stage.args.intensity,
                                         stage.args.config)

====
